---- MODULE Spec2Model ----
(***************************************************************************)
(* State-machine model of the `billion` Solana program                    *)
(* (programs/billion/src): a 100x100 grid of blocks sold as rectangular    *)
(* parcels, ring-gated by the cumulative burn, with a pull-based reward    *)
(* accumulator shared by the parcel owners.                                *)
(*                                                                         *)
(* Every instruction is one action: the Anchor account constraints, then   *)
(* the handler, then the runtime's commit-or-revert of the transaction.    *)
(* update_parcel_metadata and admin_transfer_nft_collection_authority     *)
(* write none of the accounts kept here and have no action.                *)
(*                                                                         *)
(* Unsigned 64- and 128-bit quantities are far beyond the integers TLC     *)
(* computes with, so they are kept exactly, as little-endian sequences of  *)
(* base-1000 limbs without leading zero limbs (<<>> is 0, <<615, 4>> is    *)
(* 4615).  The reward scale 10^9 is 1000^3: three limbs.                   *)
(***************************************************************************)
EXTENDS Integers, Sequences, FiniteSets, TLC

(***************************************************************************)
(* Exact unsigned arithmetic on limb sequences.                            *)
(***************************************************************************)
LIMB == 1000

RECURSIVE Big(_)
\* The limb sequence of a natural number that TLC can hold.
Big(n) == IF n = 0 THEN <<>> ELSE <<n % LIMB>> \o Big(n \div LIMB)

RECURSIVE Trim(_)
\* Drop most-significant zero limbs.
Trim(a) ==
    IF a = <<>> THEN <<>>
    ELSE IF a[Len(a)] = 0 THEN Trim(SubSeq(a, 1, Len(a) - 1))
    ELSE a

Limb(a, i) == IF i <= Len(a) THEN a[i] ELSE 0

MaxOf(m, n) == IF m >= n THEN m ELSE n

RECURSIVE AddFrom(_, _, _, _)
AddFrom(a, b, i, carry) ==
    IF i > MaxOf(Len(a), Len(b))
    THEN (IF carry = 0 THEN <<>> ELSE <<carry>>)
    ELSE LET s == Limb(a, i) + Limb(b, i) + carry
         IN  <<s % LIMB>> \o AddFrom(a, b, i + 1, s \div LIMB)

\* a + b
BigAdd(a, b) == AddFrom(a, b, 1, 0)

RECURSIVE LeqFrom(_, _, _)
\* Compare from limb i downwards (both of the same length).
LeqFrom(a, b, i) ==
    IF i = 0 THEN TRUE
    ELSE IF a[i] < b[i] THEN TRUE
    ELSE IF a[i] > b[i] THEN FALSE
    ELSE LeqFrom(a, b, i - 1)

\* a <= b
BigLeq(a, b) ==
    IF Len(a) < Len(b) THEN TRUE
    ELSE IF Len(a) > Len(b) THEN FALSE
    ELSE LeqFrom(a, b, Len(a))

BigLt(a, b) == BigLeq(a, b) /\ a # b

RECURSIVE SubFrom(_, _, _, _)
SubFrom(a, b, i, borrow) ==
    IF i > Len(a) THEN <<>>
    ELSE LET d == a[i] - Limb(b, i) - borrow
         IN  IF d < 0 THEN <<d + LIMB>> \o SubFrom(a, b, i + 1, 1)
                      ELSE <<d>> \o SubFrom(a, b, i + 1, 0)

\* a - b, for b <= a
BigSub(a, b) == Trim(SubFrom(a, b, 1, 0))

RECURSIVE MulFrom(_, _, _, _)
MulFrom(a, k, i, carry) ==
    IF i > Len(a) THEN Big(carry)
    ELSE LET p == a[i] * k + carry
         IN  <<p % LIMB>> \o MulFrom(a, k, i + 1, p \div LIMB)

\* a * k, for a small factor k (k < 2,000,000)
BigMulSmall(a, k) == Trim(MulFrom(a, k, 1, 0))

RECURSIVE DivFrom(_, _, _, _)
\* Long division from the most significant limb i down; rem < d.
DivFrom(a, d, i, rem) ==
    IF i = 0 THEN <<>>
    ELSE LET cur == rem * LIMB + a[i]
         IN  DivFrom(a, d, i - 1, cur % d) \o <<cur \div d>>

\* floor(a / d), for a small divisor d (0 < d < 2,000,000)
BigDivSmall(a, d) == Trim(DivFrom(a, d, Len(a), 0))

\* a * 10^9 and floor(a / 10^9): the reward scale is three limbs.
MulScale(a) == IF a = <<>> THEN <<>> ELSE <<0, 0, 0>> \o a
DivScale(a) == IF Len(a) <= 3 THEN <<>> ELSE SubSeq(a, 4, Len(a))

\* u64::MAX = 18,446,744,073,709,551,615
U64_MAX == <<615, 551, 709, 73, 744, 446, 18>>
\* u128::MAX = 340,282,366,920,938,463,463,374,607,431,768,211,455
U128_MAX == <<455, 211, 768, 431, 607, 374, 463, 463, 938, 920, 366, 282, 340>>
\* u32::MAX = 4,294,967,295
U32_MAX == <<295, 967, 294, 4>>
U16_MAX == 65535

\* The result of a checked operation that overflowed (Option::None): no limb
\* sequence, so it never equals a number.
NONE == <<-1>>

\* On the small counters (u32, u16), which TLC holds as integers.
\* Faulty variant of checked_add_u32: one is added, whatever the parcel's size.
add_one_u32(m, n) == m + 1

checked_add_u32(m, n) == IF BigLeq(Big(m + n), U32_MAX) THEN m + n ELSE -1
\* Faulty variant of checked_add_u16: the counter is not advanced.
unchanged_u16(m, n) == m

checked_add_u16(m, n) == IF m + n <= U16_MAX THEN m + n ELSE -1

checked_add_u64(a, b)  == LET s == BigAdd(a, b) IN IF BigLeq(s, U64_MAX) THEN s ELSE NONE
checked_add_u128(a, b) == LET s == BigAdd(a, b) IN IF BigLeq(s, U128_MAX) THEN s ELSE NONE
checked_sub(a, b)      == IF BigLeq(b, a) THEN BigSub(a, b) ELSE NONE
checked_mul_u64(a, k)  == LET p == BigMulSmall(a, k) IN IF BigLeq(p, U64_MAX) THEN p ELSE NONE
checked_mul_u128(a, k) == LET p == BigMulSmall(a, k) IN IF BigLeq(p, U128_MAX) THEN p ELSE NONE

(***************************************************************************)
(* state/block_map.rs, state/parcel_info.rs, utils.rs                      *)
(***************************************************************************)
GRID_SIZE == 100
TOTAL_BLOCKS == GRID_SIZE * GRID_SIZE

\* Pubkey::default(): the value of grid_config.collection before it is set.
PubkeyDefault == "11111111111111111111111111111111"

Abs(n) == IF n < 0 THEN -n ELSE n
MinOf(m, n) == IF m <= n THEN m ELSE n

\* Faulty variant of get_ring: the distance is dx + dy.
get_ring_manhattan(x, y) ==
    LET center   == GRID_SIZE \div 2
        distance == Abs(x - center) + Abs(y - center)
        raw_ring == (distance \div 5) + 1
    IN  MaxOf(11 - MinOf(raw_ring, 10), 1)

\* utils.rs get_ring: the ring (1..10) of block (x, y); 10 is the centre.
get_ring(x, y) ==
    LET center   == GRID_SIZE \div 2
        dx       == Abs(x - center)
        dy       == Abs(y - center)
        distance == MaxOf(dx, dy)
        raw_ring == (distance \div 5) + 1
    IN  MaxOf(11 - MinOf(raw_ring, 10), 1)

\* Faulty variant of unlocked_scan: total_burned > threshold.
RECURSIVE unlocked_scan_strict(_, _, _)
unlocked_scan_strict(total_burned, thresholds, k) ==
    IF k = 0 THEN 1
    ELSE IF BigLt(thresholds[k], total_burned) THEN k
    ELSE unlocked_scan_strict(total_burned, thresholds, k - 1)

\* Faulty variant of get_unlocked_ring: the scan runs from the front and
\* stops at the first threshold met.
get_unlocked_ring_first(total_burned, thresholds) ==
    LET met == {k \in 1..Len(thresholds) : BigLeq(thresholds[k], total_burned)}
    IN  IF met = {} THEN 1 ELSE CHOOSE k \in met : \A j \in met : k <= j

RECURSIVE unlocked_scan(_, _, _)
\* thresholds.iter().enumerate().rev(): index k (1-based) is i + 1.
unlocked_scan(total_burned, thresholds, k) ==
    IF k = 0 THEN 1
    ELSE IF BigLeq(thresholds[k], total_burned) THEN k
    ELSE unlocked_scan(total_burned, thresholds, k - 1)

\* utils.rs get_unlocked_ring
get_unlocked_ring(total_burned, thresholds) ==
    unlocked_scan(total_burned, thresholds, Len(thresholds))

\* The BlockMap's array is held sparsely: a function from the indices that
\* were written to the parcel id written there; every other entry of the
\* zero-initialised array reads 0.
BlockIndex(x, y) == y * GRID_SIZE + x

get_block(blocks, x, y) ==
    IF BlockIndex(x, y) \in DOMAIN blocks THEN blocks[BlockIndex(x, y)] ELSE 0

\* The blocks of the rectangle in the order the handlers' loops visit them
\* (for dy in 0..height { for dx in 0..width { (x + dx, y + dy) } }).
RectCells(x, y, width, height) ==
    [i \in 1..(width * height) |->
        <<x + ((i - 1) % width), y + ((i - 1) \div width)>>]

RectIndices(x, y, width, height) ==
    {BlockIndex(x + dx, y + dy) : dx \in 0..(width - 1), dy \in 0..(height - 1)}

\* The loop of set_block calls that assigns parcel_id to the rectangle.
assign_blocks(blocks, x, y, width, height, parcel_id) ==
    LET written == RectIndices(x, y, width, height)
    IN  [i \in (DOMAIN blocks) \cup written |->
            IF i \in written THEN parcel_id ELSE blocks[i]]

\* Faulty variant of block_count (the rectangle's half perimeter), to show
\* that SettlementIsExact tells the difference.
block_half_perimeter(info) == info.width + info.height

\* ParcelInfo::block_count
block_count(info) == info.width * info.height

\* The first index a loop over cells 1..n stops at: the least one that fails.
FirstOf(failing) == CHOOSE i \in failing : \A j \in failing : i <= j

\* Faulty variants of claim_scan: without the unclaimed check, and without the
\* ring check.  ClaimOnClaimedBlockFails and ClaimedRingsAreUnlocked must
\* tell them from claim_scan.
claim_scan_ring_only(cells, blocks, unlocked_ring) ==
    IF \E i \in 1..Len(cells) : get_ring(cells[i][1], cells[i][2]) > unlocked_ring
    THEN "RingLocked"
    ELSE "Ok"

claim_scan_unclaimed_only(cells, blocks, unlocked_ring) ==
    IF \E i \in 1..Len(cells) : get_block(blocks, cells[i][1], cells[i][2]) # 0
    THEN "BlockAlreadyClaimed"
    ELSE "Ok"

\* The loop of validate_claim: for each block, in order, the ring check and
\* then the unclaimed check; the first failed require! is the result.
claim_scan(cells, blocks, unlocked_ring) ==
    LET locked(i)  == get_ring(cells[i][1], cells[i][2]) > unlocked_ring
        claimed(i) == get_block(blocks, cells[i][1], cells[i][2]) # 0
        failing    == {i \in 1..Len(cells) : locked(i) \/ claimed(i)}
    IN  IF failing = {} THEN "Ok"
        ELSE IF locked(FirstOf(failing)) THEN "RingLocked"
        ELSE "BlockAlreadyClaimed"

\* Faulty variant of validate_claim: no check of the dimensions.
validate_claim_any_dimensions(x, y, width, height, blocks, cfg) ==
    IF ~(x + width <= GRID_SIZE) THEN "OutOfBounds"
    ELSE IF ~(y + height <= GRID_SIZE) THEN "OutOfBounds"
    ELSE claim_scan(RectCells(x, y, width, height), blocks,
                    get_unlocked_ring(cfg.total_burned, cfg.ring_thresholds))

\* Faulty variant of validate_claim: no check of the bounds.
validate_claim_any_bounds(x, y, width, height, blocks, cfg) ==
    IF ~(width > 0 /\ height > 0) THEN "InvalidDimensions"
    ELSE claim_scan(RectCells(x, y, width, height), blocks,
                    get_unlocked_ring(cfg.total_burned, cfg.ring_thresholds))

\* claim_parcel.rs validate_claim
validate_claim(x, y, width, height, blocks, cfg) ==
    IF ~(width > 0 /\ height > 0) THEN "InvalidDimensions"
    ELSE IF ~(x + width <= GRID_SIZE) THEN "OutOfBounds"
    ELSE IF ~(y + height <= GRID_SIZE) THEN "OutOfBounds"
    ELSE claim_scan(RectCells(x, y, width, height), blocks,
                    get_unlocked_ring(cfg.total_burned, cfg.ring_thresholds))

\* Faulty variant of admin_scan: blocks above ring 1 are refused.
admin_scan_ring_1(cells, blocks) ==
    IF \E i \in 1..Len(cells) : get_ring(cells[i][1], cells[i][2]) > 1
    THEN "RingLocked"
    ELSE IF \E i \in 1..Len(cells) : get_block(blocks, cells[i][1], cells[i][2]) # 0
    THEN "BlockAlreadyClaimed"
    ELSE "Ok"

\* Faulty variant of admin_scan: no check at all.
admin_scan_none(cells, blocks) == "Ok"

\* The loop of validate_admin_mint: the unclaimed check only.
admin_scan(cells, blocks) ==
    IF \E i \in 1..Len(cells) : get_block(blocks, cells[i][1], cells[i][2]) # 0
    THEN "BlockAlreadyClaimed"
    ELSE "Ok"

\* admin_mint.rs validate_admin_mint: bounds and unclaimed, no ring check
validate_admin_mint(x, y, width, height, blocks) ==
    IF ~(width > 0 /\ height > 0) THEN "InvalidDimensions"
    ELSE IF ~(x + width <= GRID_SIZE) THEN "OutOfBounds"
    ELSE IF ~(y + height <= GRID_SIZE) THEN "OutOfBounds"
    ELSE admin_scan(RectCells(x, y, width, height), blocks)

(***************************************************************************)
(* The accounts.  A transaction works on a record S of all of them; the    *)
(* variables hold the committed record.                                    *)
(***************************************************************************)
VARIABLES
    grid_config,     \* the GridConfig account's fields
    config_live,     \* whether the GridConfig PDA (and its reward pool) exists
    blocks,          \* BlockMap.blocks, sparse (see get_block)
    block_map_live,  \* whether a BlockMap account exists
    parcel_infos,    \* parcel id -> ParcelInfo account, for the PDAs that exist
    asset_owner,     \* Core asset -> owner, for the assets minted
    token_balance,   \* signer -> amount in its token account
    reward_pool,     \* amount in the land_buy_reward_pool token account
    last,            \* the last instruction: its arguments, result and log line
    contributed,     \* history: total reward_amount moved into the pool
    paid_out,        \* history: total paid by claim_land_buy_rewards
    settled,         \* history: parcels settled since the accumulator last grew
    absorbed,        \* history: total reward_amount paid in while no block was claimed
    allocated,       \* history: Core asset -> the parcel id it was minted for
    in_flight        \* the transactions submitted to the cluster, and how far each got

vars == <<grid_config, config_live, blocks, block_map_live, parcel_infos,
          asset_owner, token_balance, reward_pool, last, contributed, paid_out,
          settled, absorbed, allocated, in_flight>>

\* The committed accounts as one record.
Accounts ==
    [grid_config    |-> grid_config,
     config_live    |-> config_live,
     blocks         |-> blocks,
     block_map_live |-> block_map_live,
     parcel_infos   |-> parcel_infos,
     asset_owner    |-> asset_owner,
     token_balance  |-> token_balance,
     reward_pool    |-> reward_pool]

Authority == "admin"
Users == {"alice", "bob"}
Signers == Users \cup {Authority}

\* Option<T>: None, Some(v)
None == <<>>
Some(v) == <<v>>

\* What an instruction logs with msg! (all zero when nothing is logged).
NoLog == [parcel_id |-> 0, reward_amount |-> <<>>, burn_amount |-> <<>>, owed |-> <<>>]

\* An instruction's return: Err(e) with the accounts as they were written
\* up to the return, or Ok(()).
Fail(e, S) == [err |-> e, st |-> S, log |-> NoLog]
Done(S, log) == [err |-> "Ok", st |-> S, log |-> log]

\* A ParcelInfo account as `init` leaves it: allocated, all fields zero.
ZeroParcelInfo ==
    [asset |-> 0, x |-> 0, y |-> 0, width |-> 0, height |-> 0,
     last_claimed_land_buy_rewards_per_block |-> <<>>]

\* The asset keypair a client generates: an address no asset has yet.
FreshAsset(S) == Cardinality(DOMAIN S.asset_owner) + 1

(***************************************************************************)
(* The token program (CPI).  A transfer or burn of more than the source    *)
(* holds fails, and so does one that overflows the destination.            *)
(***************************************************************************)
\* token_2022::transfer_checked, claimer's account -> reward pool
transfer_to_pool(S, from, amount) ==
    IF ~BigLeq(amount, S.token_balance[from]) \/ checked_add_u64(S.reward_pool, amount) = NONE
    THEN Fail("TokenError", S)
    ELSE Done([S EXCEPT !.token_balance[from] = BigSub(@, amount),
                        !.reward_pool = BigAdd(@, amount)], NoLog)

\* Faulty variant of burn: nothing is burned.
burn_skipped(S, from, amount) == Done(S, NoLog)

\* token_2022::burn from the claimer's account
burn(S, from, amount) ==
    IF ~BigLeq(amount, S.token_balance[from])
    THEN Fail("TokenError", S)
    ELSE Done([S EXCEPT !.token_balance[from] = BigSub(@, amount)], NoLog)

\* transfer_checked, reward pool -> a signer's token account
transfer_from_pool(S, to, amount) ==
    IF ~BigLeq(amount, S.reward_pool) \/ checked_add_u64(S.token_balance[to], amount) = NONE
    THEN Fail("TokenError", S)
    ELSE Done([S EXCEPT !.reward_pool = BigSub(@, amount),
                        !.token_balance[to] = BigAdd(@, amount)], NoLog)

(***************************************************************************)
(* instructions/claim_parcel.rs                                            *)
(***************************************************************************)
\* reward_amount * 1_000_000_000 in u128, checked
scale_u128(a) == IF BigLeq(MulScale(a), U128_MAX) THEN MulScale(a) ELSE NONE

\* Faulty variants of distribute_rewards: the whole contribution credited to
\* every block, and the division done before the scaling.
distribute_rewards_undivided(cfg, reward_amount) ==
    IF cfg.total_claimed_blocks > 0 /\ reward_amount # <<>>
    THEN BigAdd(cfg.land_buy_rewards_per_block, MulScale(reward_amount))
    ELSE cfg.land_buy_rewards_per_block

distribute_rewards_divided_first(cfg, reward_amount) ==
    IF cfg.total_claimed_blocks > 0 /\ reward_amount # <<>>
    THEN BigAdd(cfg.land_buy_rewards_per_block,
                MulScale(BigDivSmall(reward_amount, cfg.total_claimed_blocks)))
    ELSE cfg.land_buy_rewards_per_block

\* Faulty variant of distribute_rewards: with no block claimed, the
\* contribution is credited as if to one block.
distribute_rewards_to_first(cfg, reward_amount) ==
    IF reward_amount # <<>>
    THEN BigAdd(cfg.land_buy_rewards_per_block,
                BigDivSmall(MulScale(reward_amount), MaxOf(cfg.total_claimed_blocks, 1)))
    ELSE cfg.land_buy_rewards_per_block

\* "Distribute rewards to existing landowners BEFORE adding new blocks": the
\* accumulator after the purchase's contribution, or NONE on overflow.
distribute_rewards(cfg, reward_amount) ==
    IF cfg.total_claimed_blocks > 0 /\ reward_amount # <<>>
    THEN IF scale_u128(reward_amount) = NONE THEN NONE
         ELSE checked_add_u128(cfg.land_buy_rewards_per_block,
                  BigDivSmall(scale_u128(reward_amount), cfg.total_claimed_blocks))
    ELSE cfg.land_buy_rewards_per_block

\* Faulty variant of init_parcel_info: the checkpoint starts at zero.
init_parcel_info_from_zero(asset, x, y, width, height, current_rewards_per_block) ==
    [asset |-> asset, x |-> x, y |-> y, width |-> width, height |-> height,
     last_claimed_land_buy_rewards_per_block |-> <<>>]

\* "Initialize ParcelInfo"
init_parcel_info(asset, x, y, width, height, current_rewards_per_block) ==
    [asset |-> asset, x |-> x, y |-> y, width |-> width, height |-> height,
     last_claimed_land_buy_rewards_per_block |-> current_rewards_per_block]

\* Faulty variant of collection_is_set: no check.
collection_unchecked(cfg) == TRUE

\* require!(grid_config.collection != Pubkey::default(), CollectionNotSet)
collection_is_set(cfg) == cfg.collection # PubkeyDefault

\* Faulty variant of has_sufficient_balance: no check.
balance_unchecked(amount, total_cost) == TRUE

\* require!(claimer_token_account.amount >= total_cost, InsufficientBalance)
has_sufficient_balance(amount, total_cost) == BigLeq(total_cost, amount)

\* Faulty variant of add_burned: the counter is set, not added to.
set_burned(total_burned, burn_amount) == burn_amount

\* total_burned.checked_add(burn_amount)
add_burned(total_burned, burn_amount) == checked_add_u64(total_burned, burn_amount)

\* The handler.  mint_ok: whether the CreateV2 CPI to Metaplex Core succeeds.
claim_parcel_handler(S, claimer, x, y, width, height, mint_ok) ==
    LET cfg           == S.grid_config
        valid         == validate_claim(x, y, width, height, S.blocks, cfg)
        num_blocks    == width * height
        total_cost    == checked_mul_u64(cfg.price_per_block, num_blocks)
        scaled_cost   == checked_mul_u64(total_cost, cfg.land_owners_reward_share_bps)
        reward_amount == BigDivSmall(scaled_cost, 10000)
        burn_amount   == checked_sub(total_cost, reward_amount)
        t1            == IF reward_amount # <<>>
                         THEN transfer_to_pool(S, claimer, reward_amount)
                         ELSE Done(S, NoLog)
        t2            == IF burn_amount # <<>>
                         THEN burn(t1.st, claimer, burn_amount)
                         ELSE Done(t1.st, NoLog)
        parcel_id     == cfg.next_parcel_id
        rewards       == distribute_rewards(cfg, reward_amount)
        S3            == [t2.st EXCEPT !.grid_config.land_buy_rewards_per_block = rewards]
        claimed       == checked_add_u32(cfg.total_claimed_blocks, num_blocks)
        S4            == [S3 EXCEPT !.grid_config.total_claimed_blocks = claimed]
        burned        == add_burned(cfg.total_burned, burn_amount)
        S5            == [S4 EXCEPT !.grid_config.total_burned = burned]
        next_id       == checked_add_u16(cfg.next_parcel_id, 1)
        S6            == [S5 EXCEPT !.grid_config.next_parcel_id = next_id]
        current_rewards_per_block == S6.grid_config.land_buy_rewards_per_block
        S7            == [S6 EXCEPT !.blocks =
                              assign_blocks(@, x, y, width, height, parcel_id)]
        asset         == FreshAsset(S)
        S8            == [S7 EXCEPT
                            !.asset_owner = @ @@ (asset :> claimer),
                            !.parcel_infos[parcel_id] =
                                init_parcel_info(asset, x, y, width, height,
                                                 current_rewards_per_block)]
    IN  IF ~collection_is_set(cfg) THEN Fail("CollectionNotSet", S)
        ELSE IF valid # "Ok" THEN Fail(valid, S)
        ELSE IF total_cost = NONE THEN Fail("Overflow", S)
        ELSE IF scaled_cost = NONE THEN Fail("Overflow", S)
        ELSE IF burn_amount = NONE THEN Fail("Overflow", S)
        ELSE IF ~has_sufficient_balance(S.token_balance[claimer], total_cost)
             THEN Fail("InsufficientBalance", S)
        ELSE IF t1.err # "Ok" THEN Fail(t1.err, t1.st)
        ELSE IF t2.err # "Ok" THEN Fail(t2.err, t2.st)
        ELSE IF rewards = NONE THEN Fail("Overflow", t2.st)
        ELSE IF claimed = -1 THEN Fail("Overflow", S3)
        ELSE IF burned = NONE THEN Fail("Overflow", S4)
        ELSE IF next_id = -1 THEN Fail("Overflow", S5)
        ELSE IF ~mint_ok THEN Fail("MintFailed", S7)
        ELSE Done(S8, [parcel_id |-> parcel_id, reward_amount |-> reward_amount,
                       burn_amount |-> burn_amount, owed |-> <<>>])

\* The ClaimParcel accounts, then the handler.  `init` allocates the
\* ParcelInfo PDA of next_parcel_id, and fails if that address is in use.
claim_parcel(S, claimer, x, y, width, height, mint_ok) ==
    IF ~S.config_live THEN Fail("AccountNotInitialized", S)
    ELSE IF S.grid_config.next_parcel_id \in DOMAIN S.parcel_infos
         THEN Fail("AccountAlreadyInUse", S)
    ELSE claim_parcel_handler(
             [S EXCEPT !.parcel_infos =
                  @ @@ (S.grid_config.next_parcel_id :> ZeroParcelInfo)],
             claimer, x, y, width, height, mint_ok)

(***************************************************************************)
(* instructions/admin_mint.rs                                              *)
(***************************************************************************)
admin_mint_handler(S, recipient, x, y, width, height, mint_ok) ==
    LET cfg        == S.grid_config
        valid      == validate_admin_mint(x, y, width, height, S.blocks)
        num_blocks == width * height
        parcel_id  == cfg.next_parcel_id
        claimed    == checked_add_u32(cfg.total_claimed_blocks, num_blocks)
        S1         == [S EXCEPT !.grid_config.total_claimed_blocks = claimed]
        next_id    == checked_add_u16(cfg.next_parcel_id, 1)
        S2         == [S1 EXCEPT !.grid_config.next_parcel_id = next_id]
        current_rewards_per_block == S2.grid_config.land_buy_rewards_per_block
        S3         == [S2 EXCEPT !.blocks =
                           assign_blocks(@, x, y, width, height, parcel_id)]
        asset      == FreshAsset(S)
        S4         == [S3 EXCEPT
                         !.asset_owner = @ @@ (asset :> recipient),
                         !.parcel_infos[parcel_id] =
                             init_parcel_info(asset, x, y, width, height,
                                              current_rewards_per_block)]
    IN  IF ~collection_is_set(cfg) THEN Fail("CollectionNotSet", S)
        ELSE IF ~cfg.seeding_enabled THEN Fail("SeedingDisabled", S)
        ELSE IF valid # "Ok" THEN Fail(valid, S)
        ELSE IF claimed = -1 THEN Fail("Overflow", S)
        ELSE IF next_id = -1 THEN Fail("Overflow", S1)
        ELSE IF ~mint_ok THEN Fail("MintFailed", S3)
        ELSE Done(S4, [NoLog EXCEPT !.parcel_id = parcel_id])

\* The AdminMint accounts (the ParcelInfo `init`, then the constraint on the
\* authority), then the handler.
admin_mint(S, signer, recipient, x, y, width, height, mint_ok) ==
    IF ~S.config_live THEN Fail("AccountNotInitialized", S)
    ELSE IF S.grid_config.next_parcel_id \in DOMAIN S.parcel_infos
         THEN Fail("AccountAlreadyInUse", S)
    ELSE IF signer # S.grid_config.authority THEN Fail("Unauthorized", S)
    ELSE admin_mint_handler(
             [S EXCEPT !.parcel_infos =
                  @ @@ (S.grid_config.next_parcel_id :> ZeroParcelInfo)],
             recipient, x, y, width, height, mint_ok)

(***************************************************************************)
(* instructions/claim_land_buy_rewards.rs                                  *)
(***************************************************************************)
\* u64::try_from(owed_u128)
try_u64(a) == IF BigLeq(a, U64_MAX) THEN a ELSE NONE

\* Faulty variant of update_checkpoint: the checkpoint stays.
keep_checkpoint(info, rewards_per_block) == info

\* "Update last claimed checkpoint"
update_checkpoint(info, rewards_per_block) ==
    [info EXCEPT !.last_claimed_land_buy_rewards_per_block = rewards_per_block]

\* get_core_asset_owner: the owner field of the asset's account, which the
\* Metaplex Core program keeps.
get_core_asset_owner(S, asset) == S.asset_owner[asset]

\* Faulty variant of is_current_owner: no check.
is_anyone(owner, claimer) == TRUE

\* require!(owner == claimer.key(), NotOwner)
is_current_owner(owner, claimer) == owner = claimer

\* Faulty variant of claim_land_buy_rewards_handler: the parcel is paid its
\* blocks' share of what the pool holds at the moment.
claim_land_buy_rewards_handler_pool_share(S, claimer, parcel_id, cpi_ok) ==
    LET cfg         == S.grid_config
        parcel_info == S.parcel_infos[parcel_id]
        owner       == get_core_asset_owner(S, parcel_info.asset)
        owed        == BigDivSmall(BigMulSmall(S.reward_pool, block_count(parcel_info)),
                                   MaxOf(cfg.total_claimed_blocks, 1))
        S1          == [S EXCEPT !.parcel_infos[parcel_id] =
                            update_checkpoint(@, cfg.land_buy_rewards_per_block)]
        t           == IF cpi_ok THEN transfer_from_pool(S1, claimer, owed)
                       ELSE Fail("TokenError", S1)
    IN  IF ~is_current_owner(owner, claimer) THEN Fail("NotOwner", S)
        ELSE IF owed = <<>> THEN Fail("NothingToClaim", S)
        ELSE IF t.err # "Ok" THEN Fail(t.err, t.st)
        ELSE Done(t.st, [NoLog EXCEPT !.parcel_id = parcel_id, !.owed = owed])

\* The handler.  cpi_ok: whether the token program carries out the transfer
\* out of the pool (it refuses a frozen token account, for one).
claim_land_buy_rewards_handler(S, claimer, parcel_id, cpi_ok) ==
    LET cfg           == S.grid_config
        parcel_info   == S.parcel_infos[parcel_id]
        owner         == get_core_asset_owner(S, parcel_info.asset)
        rewards_delta == checked_sub(cfg.land_buy_rewards_per_block,
                             parcel_info.last_claimed_land_buy_rewards_per_block)
        scaled_owed   == checked_mul_u128(rewards_delta, block_count(parcel_info))
        owed          == try_u64(DivScale(scaled_owed))
        S1            == [S EXCEPT !.parcel_infos[parcel_id] =
                              update_checkpoint(@, cfg.land_buy_rewards_per_block)]
        t             == IF cpi_ok THEN transfer_from_pool(S1, claimer, owed)
                         ELSE Fail("TokenError", S1)
    IN  IF ~is_current_owner(owner, claimer) THEN Fail("NotOwner", S)
        ELSE IF rewards_delta = NONE THEN Fail("Overflow", S)
        ELSE IF scaled_owed = NONE THEN Fail("Overflow", S)
        ELSE IF owed = NONE THEN Fail("Overflow", S)
        ELSE IF owed = <<>> THEN Fail("NothingToClaim", S)
        ELSE IF t.err # "Ok" THEN Fail(t.err, t.st)
        ELSE Done(t.st, [NoLog EXCEPT !.parcel_id = parcel_id, !.owed = owed])

\* The ClaimLandBuyRewards accounts (the ParcelInfo PDA of parcel_id must
\* exist), then the handler.
claim_land_buy_rewards(S, claimer, parcel_id, cpi_ok) ==
    IF ~S.config_live THEN Fail("AccountNotInitialized", S)
    ELSE IF parcel_id \notin DOMAIN S.parcel_infos THEN Fail("AccountNotInitialized", S)
    ELSE claim_land_buy_rewards_handler(S, claimer, parcel_id, cpi_ok)

(***************************************************************************)
(* instructions/update_config.rs, initialize.rs, create_block_map.rs,      *)
(* admin_close_parcel_info.rs, admin_purge.rs                              *)
(***************************************************************************)
Set(field, opt) == IF opt # None THEN opt[1] ELSE field

\* Faulty variant of update_config: no constraint on the authority.
update_config_by_anyone(S, signer, args) ==
    IF ~S.config_live THEN Fail("AccountNotInitialized", S)
    ELSE Done([S EXCEPT !.grid_config = [@ EXCEPT
                 !.price_per_block = Set(@, args.price_per_block),
                 !.ring_thresholds = Set(@, args.ring_thresholds),
                 !.seeding_enabled = Set(@, args.seeding_enabled),
                 !.collection = Set(@, args.collection),
                 !.land_owners_reward_share_bps = Set(@, args.land_owners_reward_share_bps),
                 !.total_burned = Set(@, args.total_burned)]], NoLog)

\* args: one Option per parameter of update_config
update_config(S, signer, args) ==
    IF ~S.config_live THEN Fail("AccountNotInitialized", S)
    ELSE IF signer # S.grid_config.authority THEN Fail("Unauthorized", S)
    ELSE Done([S EXCEPT !.grid_config = [@ EXCEPT
                 !.price_per_block = Set(@, args.price_per_block),
                 !.ring_thresholds = Set(@, args.ring_thresholds),
                 !.seeding_enabled = Set(@, args.seeding_enabled),
                 !.collection = Set(@, args.collection),
                 !.land_owners_reward_share_bps = Set(@, args.land_owners_reward_share_bps),
                 !.total_burned = Set(@, args.total_burned)]], NoLog)

\* A GridConfig address that holds no account.
NoConfig ==
    [authority |-> "", collection |-> PubkeyDefault, price_per_block |-> <<>>,
     total_burned |-> <<>>, ring_thresholds |-> <<>>, next_parcel_id |-> 0,
     seeding_enabled |-> FALSE, land_buy_rewards_per_block |-> <<>>,
     total_claimed_blocks |-> 0, land_owners_reward_share_bps |-> 0]

\* Faulty variant of initialize: init_if_needed, which takes a GridConfig
\* that exists and writes it anew.
initialize_if_needed(S, signer, price_per_block, ring_thresholds, land_owners_reward_share_bps) ==
    IF ~S.block_map_live THEN Fail("AccountNotInitialized", S)
    ELSE Done([S EXCEPT
                 !.config_live = TRUE,
                 !.grid_config =
                     [authority |-> signer,
                      collection |-> PubkeyDefault,
                      price_per_block |-> price_per_block,
                      total_burned |-> <<>>,
                      ring_thresholds |-> ring_thresholds,
                      next_parcel_id |-> 1,
                      seeding_enabled |-> TRUE,
                      land_buy_rewards_per_block |-> <<>>,
                      total_claimed_blocks |-> 0,
                      land_owners_reward_share_bps |-> land_owners_reward_share_bps]],
              NoLog)

\* initialize: `init` of the GridConfig PDA and of the reward pool; the
\* signer becomes the authority.
initialize(S, signer, price_per_block, ring_thresholds, land_owners_reward_share_bps) ==
    IF S.config_live THEN Fail("AccountAlreadyInUse", S)
    ELSE IF ~S.block_map_live THEN Fail("AccountNotInitialized", S)
    ELSE Done([S EXCEPT
                 !.config_live = TRUE,
                 !.reward_pool = <<>>,
                 !.grid_config =
                     [authority |-> signer,
                      collection |-> PubkeyDefault,
                      price_per_block |-> price_per_block,
                      total_burned |-> <<>>,
                      ring_thresholds |-> ring_thresholds,
                      next_parcel_id |-> 1,
                      seeding_enabled |-> TRUE,
                      land_buy_rewards_per_block |-> <<>>,
                      total_claimed_blocks |-> 0,
                      land_owners_reward_share_bps |-> land_owners_reward_share_bps]],
              NoLog)

\* create_block_map: a zeroed account of the program becomes a BlockMap.
create_block_map(S) ==
    Done([S EXCEPT !.block_map_live = TRUE, !.blocks = <<>>], NoLog)

\* Faulty variant of admin_close_parcel_info: the parcel's blocks are freed
\* with its record.
admin_close_parcel_info_freeing_blocks(S, signer, parcel_id) ==
    IF ~S.config_live THEN Fail("AccountNotInitialized", S)
    ELSE IF parcel_id \notin DOMAIN S.parcel_infos THEN Fail("AccountNotInitialized", S)
    ELSE IF signer # S.grid_config.authority THEN Fail("Unauthorized", S)
    ELSE Done([S EXCEPT
                 !.parcel_infos = [p \in (DOMAIN @) \ {parcel_id} |-> @[p]],
                 !.blocks = assign_blocks(@, S.parcel_infos[parcel_id].x,
                                          S.parcel_infos[parcel_id].y,
                                          S.parcel_infos[parcel_id].width,
                                          S.parcel_infos[parcel_id].height, 0)],
              NoLog)

\* admin_close_parcel_info: both accounts are loaded, then has_one =
\* authority is checked, then the PDA is closed.
admin_close_parcel_info(S, signer, parcel_id) ==
    IF ~S.config_live THEN Fail("AccountNotInitialized", S)
    ELSE IF parcel_id \notin DOMAIN S.parcel_infos THEN Fail("AccountNotInitialized", S)
    ELSE IF signer # S.grid_config.authority THEN Fail("Unauthorized", S)
    ELSE Done([S EXCEPT !.parcel_infos =
                  [p \in (DOMAIN @) \ {parcel_id} |-> @[p]]], NoLog)

\* Faulty variant of admin_purge: the BlockMap is zeroed first, before the
\* pool is drained and closed.
admin_purge_zero_first(S, signer, cpi) ==
    LET S1     == [S EXCEPT !.blocks = <<>>, !.block_map_live = FALSE]
        amount == S.reward_pool
        t      == IF amount # <<>>
                  THEN transfer_from_pool(S1, signer, amount)
                  ELSE Done(S1, NoLog)
        S3     == [t.st EXCEPT !.config_live = FALSE, !.grid_config = NoConfig]
    IN  IF ~S.config_live THEN Fail("AccountNotInitialized", S)
        ELSE IF signer # S.grid_config.authority THEN Fail("Unauthorized", S)
        ELSE IF amount # <<>> /\ cpi = "drain" THEN Fail("TokenError", S1)
        ELSE IF t.err # "Ok" THEN Fail(t.err, t.st)
        ELSE IF cpi = "close" THEN Fail("TokenError", t.st)
        ELSE Done(S3, NoLog)

\* admin_purge.  cpi: "ok", or which CPI to the token program fails
\* ("drain", "close").
admin_purge(S, signer, cpi) ==
    LET amount == S.reward_pool
        t      == IF amount # <<>>
                  THEN transfer_from_pool(S, signer, amount)
                  ELSE Done(S, NoLog)
        S2     == [t.st EXCEPT !.blocks = <<>>, !.block_map_live = FALSE]
        S3     == [S2 EXCEPT !.config_live = FALSE, !.grid_config = NoConfig]
    IN  IF ~S.config_live THEN Fail("AccountNotInitialized", S)
        ELSE IF signer # S.grid_config.authority THEN Fail("Unauthorized", S)
        ELSE IF amount # <<>> /\ cpi = "drain" THEN Fail("TokenError", S)
        ELSE IF t.err # "Ok" THEN Fail(t.err, t.st)
        ELSE IF cpi = "close" THEN Fail("TokenError", t.st)
        ELSE Done(S3, NoLog)

(***************************************************************************)
(* The runtime and the history variables.                                  *)
(***************************************************************************)
\* Faulty variant of Committed: a runtime that keeps what a failed
\* instruction wrote.
CommittedWithoutRevert(S, r) == r.st

\* A transaction that returns an error is reverted as a whole; one that
\* returns Ok(()) commits every account it wrote.
Committed(S, r) == IF r.err = "Ok" THEN r.st ELSE S

NoCall == [op |-> "", signer |-> "", x |-> 0, y |-> 0, width |-> 0, height |-> 0,
           parcel_id |-> 0, err |-> "", log |-> NoLog]

Call(op, signer) == [NoCall EXCEPT !.op = op, !.signer = signer]
RectCall(op, signer, x, y, width, height) ==
    [Call(op, signer) EXCEPT !.x = x, !.y = y, !.width = width, !.height = height]
ParcelCall(op, signer, parcel_id) == [Call(op, signer) EXCEPT !.parcel_id = parcel_id]

\* The parcels settled since the accumulator last grew.
SettledAfter(call, r) ==
    IF r.err # "Ok" THEN settled
    ELSE IF call.op = "claim_land_buy_rewards" THEN settled \cup {call.parcel_id}
    ELSE IF call.op = "admin_close_parcel_info" THEN settled \ {call.parcel_id}
    ELSE IF r.st.grid_config.land_buy_rewards_per_block
              # grid_config.land_buy_rewards_per_block THEN {}
    ELSE settled

\* The accounts and the history after instruction `call` returned r.
Apply(call, r) ==
    /\ grid_config'    = Committed(Accounts, r).grid_config
    /\ config_live'    = Committed(Accounts, r).config_live
    /\ blocks'         = Committed(Accounts, r).blocks
    /\ block_map_live' = Committed(Accounts, r).block_map_live
    /\ parcel_infos'   = Committed(Accounts, r).parcel_infos
    /\ asset_owner'    = Committed(Accounts, r).asset_owner
    /\ token_balance'  = Committed(Accounts, r).token_balance
    /\ reward_pool'    = Committed(Accounts, r).reward_pool
    /\ last'           = [call EXCEPT !.err = r.err, !.log = r.log,
                                      !.parcel_id = IF call.parcel_id # 0 THEN @
                                                    ELSE r.log.parcel_id]
    /\ contributed'    = IF call.op = "claim_parcel"
                         THEN BigAdd(contributed, r.log.reward_amount) ELSE contributed
    /\ paid_out'       = IF call.op = "claim_land_buy_rewards"
                         THEN BigAdd(paid_out, r.log.owed) ELSE paid_out
    /\ settled'        = SettledAfter(call, r)
    /\ absorbed'       = IF call.op = "claim_parcel" /\ r.err = "Ok"
                            /\ grid_config.total_claimed_blocks = 0
                         THEN BigAdd(absorbed, r.log.reward_amount) ELSE absorbed
    /\ allocated'      = IF call.op \in {"claim_parcel", "admin_mint"} /\ r.err = "Ok"
                         THEN allocated @@ (FreshAsset(Accounts) :> r.log.parcel_id)
                         ELSE allocated

\* One transaction, from taking its account locks to its commit or revert:
\* instruction `call` returned r.
Execute(call, r) ==
    /\ Apply(call, r)
    /\ UNCHANGED in_flight

(***************************************************************************)
(* The actions: one per instruction.                                       *)
(***************************************************************************)
ClaimParcel(claimer, x, y, width, height, mint_ok) ==
    Execute(RectCall("claim_parcel", claimer, x, y, width, height),
            claim_parcel(Accounts, claimer, x, y, width, height, mint_ok))

AdminMint(signer, recipient, x, y, width, height, mint_ok) ==
    Execute(RectCall("admin_mint", signer, x, y, width, height),
            admin_mint(Accounts, signer, recipient, x, y, width, height, mint_ok))

ClaimLandBuyRewards(claimer, parcel_id, cpi_ok) ==
    Execute(ParcelCall("claim_land_buy_rewards", claimer, parcel_id),
            claim_land_buy_rewards(Accounts, claimer, parcel_id, cpi_ok))

UpdateConfig(signer, args) ==
    Execute(Call("update_config", signer), update_config(Accounts, signer, args))

AdminCloseParcelInfo(signer, parcel_id) ==
    Execute(ParcelCall("admin_close_parcel_info", signer, parcel_id),
            admin_close_parcel_info(Accounts, signer, parcel_id))

CreateBlockMap ==
    /\ ~block_map_live
    /\ Execute(Call("create_block_map", Authority), create_block_map(Accounts))

Initialize(signer, price_per_block, ring_thresholds, land_owners_reward_share_bps) ==
    Execute(Call("initialize", signer),
            initialize(Accounts, signer, price_per_block, ring_thresholds,
                       land_owners_reward_share_bps))

AdminPurge(signer, cpi) ==
    Execute(Call("admin_purge", signer), admin_purge(Accounts, signer, cpi))

\* Not an instruction of this program: the owner of an asset hands it to
\* new_owner through Metaplex Core, which rewrites the owner field that
\* get_core_asset_owner reads.
TransferAsset(asset, new_owner) ==
    /\ asset \in DOMAIN asset_owner
    /\ Execute(Call("transfer_asset", asset_owner[asset]),
               Done([Accounts EXCEPT !.asset_owner[asset] = new_owner], NoLog))

(***************************************************************************)
(* Inputs.                                                                 *)
(***************************************************************************)
\* Bound of the model: the parcels allocated in one lifetime of a grid.
MaxParcels == 2

Collection == "collection"

NoChange ==
    [price_per_block |-> None, ring_thresholds |-> None, seeding_enabled |-> None,
     collection |-> None, land_owners_reward_share_bps |-> None, total_burned |-> None]

SetCollection   == [NoChange EXCEPT !.collection = Some(Collection)]
UnsetCollection == [NoChange EXCEPT !.collection = Some(PubkeyDefault)]
UnlockRing2     == [NoChange EXCEPT !.total_burned = Some(Big(500))]
BurnedToMax     == [NoChange EXCEPT !.total_burned = Some(U64_MAX)]

\* initialize's arguments: 500 per block, ring 2 unlocked at 500 burned, 20%
\* of the price to the land owners.
InitialPrice == Big(500)
InitialThresholds == <<<<>>, Big(500)>>
InitialShareBps == 2000

InitialBalance == [s \in Signers |-> IF s = "alice" THEN Big(10000) ELSE <<>>]

\* No account of the program exists yet.
Blank ==
    [grid_config |-> NoConfig, config_live |-> FALSE, blocks |-> <<>>,
     block_map_live |-> FALSE, parcel_infos |-> <<>>, asset_owner |-> <<>>,
     token_balance |-> InitialBalance, reward_pool |-> <<>>]

\* The grid as create_block_map and initialize leave it.
Initialized ==
    initialize(create_block_map(Blank).st, Authority, InitialPrice,
               InitialThresholds, InitialShareBps).st

StartFrom(S, call) ==
    /\ grid_config = S.grid_config
    /\ config_live = S.config_live
    /\ blocks = S.blocks
    /\ block_map_live = S.block_map_live
    /\ parcel_infos = S.parcel_infos
    /\ asset_owner = S.asset_owner
    /\ token_balance = S.token_balance
    /\ reward_pool = S.reward_pool
    /\ last = call
    /\ contributed = <<>>
    /\ paid_out = <<>>
    /\ settled = {}
    /\ absorbed = <<>>
    /\ allocated = <<>>
    /\ in_flight = {}

\* The model stops allocating after `max` parcels; calls that fail go on.
WithinBudget(r, max) == r.err = "Ok" => r.log.parcel_id <= max

(***************************************************************************)
(* Spec: one lifetime of a grid, from initialize on.  Parcels of 3, 1 and  *)
(* 2 blocks in ring 1, so that contributions are shared among 1, 2 and 3   *)
(* blocks (a third of 100 truncates).                                      *)
(***************************************************************************)
RewardRects == { <<0, 0, 3, 1>>, <<0, 2, 1, 1>>, <<0, 4, 2, 1>> }

Init == StartFrom(Initialized, [Call("initialize", Authority) EXCEPT !.err = "Ok"])

Next ==
    \/ \E rect \in RewardRects :
          /\ WithinBudget(claim_parcel(Accounts, "alice", rect[1], rect[2],
                                       rect[3], rect[4], TRUE), MaxParcels)
          /\ ClaimParcel("alice", rect[1], rect[2], rect[3], rect[4], TRUE)
    \/ \E rect \in RewardRects :
          /\ WithinBudget(admin_mint(Accounts, Authority, "bob", rect[1], rect[2],
                                     rect[3], rect[4], TRUE), MaxParcels)
          /\ AdminMint(Authority, "bob", rect[1], rect[2], rect[3], rect[4], TRUE)
    \/ \E c \in Users, p \in 1..MaxParcels : ClaimLandBuyRewards(c, p, TRUE)
    \/ UpdateConfig(Authority, SetCollection)
    \/ \E p \in 1..MaxParcels : AdminCloseParcelInfo(Authority, p)

Spec == Init /\ [][Next]_vars

(***************************************************************************)
(* SpecGrid: allocation only (claim_parcel, admin_mint, update_config), on *)
(* rectangles that probe the allocation rules.                             *)
(***************************************************************************)
\* In ring 1, overlapping it, across the border of rings 1 and 2 ((6, 6) is
\* in ring 2), inside ring 2, apart from all of them, empty, out of the grid.
Rects ==
    { <<0, 0, 2, 1>>, <<1, 0, 1, 2>>, <<5, 5, 2, 2>>, <<6, 6, 1, 1>>, <<0, 3, 1, 1>>,
      <<0, 0, 0, 1>>, <<3, 3, 1, 0>>, <<95, 0, 10, 1>>, <<0, 99, 1, 2>> }

NextGrid ==
    \/ \E rect \in Rects :
          /\ WithinBudget(claim_parcel(Accounts, "alice", rect[1], rect[2],
                                       rect[3], rect[4], TRUE), MaxParcels)
          /\ ClaimParcel("alice", rect[1], rect[2], rect[3], rect[4], TRUE)
    \/ \E rect \in Rects :
          /\ WithinBudget(admin_mint(Accounts, Authority, "bob", rect[1], rect[2],
                                     rect[3], rect[4], TRUE), MaxParcels)
          /\ AdminMint(Authority, "bob", rect[1], rect[2], rect[3], rect[4], TRUE)
    \/ \E args \in {SetCollection, UnsetCollection, UnlockRing2} :
          UpdateConfig(Authority, args)

SpecGrid == Init /\ [][NextGrid]_vars

(***************************************************************************)
(* SpecLifecycle: from no account at all, through create_block_map and     *)
(* initialize, to admin_purge and again; signers without authority, CPIs   *)
(* that fail, and a total_burned at the top of u64.                        *)
(***************************************************************************)
LifecycleRects == { <<0, 0, 3, 1>>, <<0, 2, 1, 1>>, <<1, 0, 1, 1>> }

InitLifecycle == StartFrom(Blank, NoCall)

NextLifecycle ==
    \/ CreateBlockMap
    \/ Initialize(Authority, InitialPrice, InitialThresholds, InitialShareBps)
    \/ \E rect \in LifecycleRects, mint_ok \in BOOLEAN :
          /\ WithinBudget(claim_parcel(Accounts, "alice", rect[1], rect[2],
                                       rect[3], rect[4], mint_ok), MaxParcels)
          /\ ClaimParcel("alice", rect[1], rect[2], rect[3], rect[4], mint_ok)
    \/ \E signer \in {Authority, "alice"}, rect \in LifecycleRects, mint_ok \in BOOLEAN :
          /\ WithinBudget(admin_mint(Accounts, signer, "bob", rect[1], rect[2],
                                     rect[3], rect[4], mint_ok), MaxParcels)
          /\ AdminMint(signer, "bob", rect[1], rect[2], rect[3], rect[4], mint_ok)
    \/ \E c \in Users, p \in 1..MaxParcels, cpi_ok \in BOOLEAN :
          ClaimLandBuyRewards(c, p, cpi_ok)
    \/ \E args \in {SetCollection, BurnedToMax} : UpdateConfig(Authority, args)
    \/ \E signer \in {Authority, "bob"}, cpi \in {"ok", "drain", "close"} :
          AdminPurge(signer, cpi)

SpecLifecycle == InitLifecycle /\ [][NextLifecycle]_vars

(***************************************************************************)
(* Properties.  A property of one call reads the call and its result in    *)
(* last' and the accounts before the call in the unprimed variables.       *)
(***************************************************************************)
\* The blocks of a rectangle that lie in the grid.
BlocksOf(x, y, width, height) ==
    {<<bx, by>> \in (x..(x + width - 1)) \X (y..(y + height - 1)) :
        bx < GRID_SIZE /\ by < GRID_SIZE}

ParcelBlocks(info) == BlocksOf(info.x, info.y, info.width, info.height)

\* C1: after any sequence of claim_parcel and admin_mint calls, every block
\* of an allocated parcel p holds p in the BlockMap, and the rectangles of
\* two allocated parcels share no block.
ParcelsOwnTheirBlocks ==
    \A p \in DOMAIN parcel_infos :
        /\ \A b \in ParcelBlocks(parcel_infos[p]) : get_block(blocks, b[1], b[2]) = p
        /\ \A q \in DOMAIN parcel_infos :
              q # p => ParcelBlocks(parcel_infos[p]) \cap ParcelBlocks(parcel_infos[q]) = {}

\* Two parcels are allocated, one bought by alice and one minted to bob.
BoughtAndMintedParcels ==
    \E p, q \in DOMAIN parcel_infos :
        /\ asset_owner[parcel_infos[p].asset] = "alice"
        /\ asset_owner[parcel_infos[q].asset] = "bob"

\* The rectangle of the call has a block that is claimed before the call.
HasClaimedBlock(x, y, width, height) ==
    \E b \in BlocksOf(x, y, width, height) : get_block(blocks, b[1], b[2]) # 0

\* The fields of the claim that a failed purchase must leave alone.
PurchaseState ==
    <<blocks, grid_config.total_claimed_blocks, grid_config.total_burned,
      grid_config.next_parcel_id, grid_config.land_buy_rewards_per_block>>

\* The loop of validate_claim meets a block of a locked ring at or before the
\* first claimed block of the (in-grid) rectangle.
LockedBeforeClaimed(x, y, width, height) ==
    LET cells    == RectCells(x, y, width, height)
        unlocked == get_unlocked_ring(grid_config.total_burned, grid_config.ring_thresholds)
        claimed  == {i \in 1..Len(cells) : get_block(blocks, cells[i][1], cells[i][2]) # 0}
    IN  \E j \in 1..FirstOf(claimed) : get_ring(cells[j][1], cells[j][2]) > unlocked

\* C2, as stated: a claim_parcel call on a rectangle with a claimed block
\* fails with BlockAlreadyClaimed, and leaves the BlockMap,
\* total_claimed_blocks, total_burned, next_parcel_id and
\* land_buy_rewards_per_block as they were.
ClaimOnClaimedBlockIsAlreadyClaimed ==
    [][(/\ last'.op = "claim_parcel"
        /\ HasClaimedBlock(last'.x, last'.y, last'.width, last'.height))
       => /\ last'.err = "BlockAlreadyClaimed"
          /\ UNCHANGED PurchaseState]_vars

\* C2, amended: a claim_parcel call on a rectangle inside the grid with a
\* claimed block fails and leaves those fields as they were; the error is
\* CollectionNotSet when no collection is set, else RingLocked when the
\* row-major scan meets a block of a locked ring at or before the first
\* claimed block, else BlockAlreadyClaimed.
ClaimOnClaimedBlockFails ==
    [][(/\ last'.op = "claim_parcel"
        /\ last'.x + last'.width <= GRID_SIZE
        /\ last'.y + last'.height <= GRID_SIZE
        /\ HasClaimedBlock(last'.x, last'.y, last'.width, last'.height))
       => /\ last'.err =
                IF grid_config.collection = PubkeyDefault THEN "CollectionNotSet"
                ELSE IF LockedBeforeClaimed(last'.x, last'.y, last'.width, last'.height)
                     THEN "RingLocked"
                ELSE "BlockAlreadyClaimed"
          /\ UNCHANGED PurchaseState]_vars

\* A purchase of a rectangle with a claimed block has just failed with
\* BlockAlreadyClaimed.
ClaimedBlockRefused ==
    /\ last.op = "claim_parcel"
    /\ last.err = "BlockAlreadyClaimed"
    /\ HasClaimedBlock(last.x, last.y, last.width, last.height)

\* The instructions of C3.
RevertingInstructions ==
    {"claim_parcel", "admin_mint", "claim_land_buy_rewards", "admin_purge"}

ClaimedRingsAreUnlocked ==
    [][(last'.op = "claim_parcel" /\ last'.err = "Ok")
       => \A b \in BlocksOf(last'.x, last'.y, last'.width, last'.height) :
              get_ring(b[1], b[2]) <=
                  get_unlocked_ring(grid_config.total_burned, grid_config.ring_thresholds)]_vars

\* A purchase with a block of ring 2 has just succeeded.
Ring2Claimed ==
    /\ last.op = "claim_parcel"
    /\ last.err = "Ok"
    /\ \E b \in BlocksOf(last.x, last.y, last.width, last.height) : get_ring(b[1], b[2]) = 2

\* C10, as stated: claim_parcel with width 0 or height 0 fails with
\* InvalidDimensions.
EmptyClaimIsInvalidDimensions ==
    [][(last'.op = "claim_parcel" /\ (last'.width = 0 \/ last'.height = 0))
       => last'.err = "InvalidDimensions"]_vars

\* C10, amended: claim_parcel with width 0 or height 0 fails, with
\* InvalidDimensions when a collection is set and with CollectionNotSet when
\* none is (the handler looks at the collection first).
EmptyClaimFails ==
    [][(last'.op = "claim_parcel" /\ (last'.width = 0 \/ last'.height = 0))
       => last'.err = IF grid_config.collection = PubkeyDefault
                      THEN "CollectionNotSet"
                      ELSE "InvalidDimensions"]_vars

\* A purchase of height 0 has just failed with InvalidDimensions.
EmptyClaimRefused ==
    /\ last.op = "claim_parcel"
    /\ last.height = 0
    /\ last.err = "InvalidDimensions"

\* What the accumulator owes a parcel: block_count * (accumulator -
\* checkpoint) / 10^9, rounded down.
Owed(info) ==
    DivScale(BigMulSmall(BigSub(grid_config.land_buy_rewards_per_block,
                                info.last_claimed_land_buy_rewards_per_block),
                         info.width * info.height))

RECURSIVE TotalOwed(_)
TotalOwed(parcels) ==
    IF parcels = {} THEN <<>>
    ELSE LET p == CHOOSE q \in parcels : TRUE
         IN  BigAdd(Owed(parcel_infos[p]), TotalOwed(parcels \ {p}))

\* C5: the total paid out by claim_land_buy_rewards never exceeds the total
\* reward_amount that claim_parcel calls moved into the pool; nor does it
\* together with all that the parcels are still owed.
PaidOutWithinContributions ==
    /\ BigLeq(paid_out, contributed)
    /\ BigLeq(BigAdd(paid_out, TotalOwed(DOMAIN parcel_infos)), contributed)

\* 99 of the 400 contributed were paid out (a third of 100 per block, three
\* blocks, rounded down).
PaidOutRoundedDown ==
    /\ paid_out = Big(99)
    /\ contributed = Big(400)

\* C6: a successful claim_parcel with reward R > 0, made when T > 0 blocks
\* are claimed, adds exactly floor(R * 10^9 / T) to
\* land_buy_rewards_per_block, T being the count before the purchase's own
\* blocks are added; with T = 100 and R = 1000 that is 10^10.
ContributionIsSharedPerBlock ==
    [][/\ (/\ last'.op = "claim_parcel"
           /\ last'.err = "Ok"
           /\ last'.log.reward_amount # <<>>
           /\ grid_config.total_claimed_blocks > 0)
          => grid_config'.land_buy_rewards_per_block =
                 BigAdd(grid_config.land_buy_rewards_per_block,
                        BigDivSmall(MulScale(last'.log.reward_amount),
                                    grid_config.total_claimed_blocks))
       /\ distribute_rewards([grid_config EXCEPT !.total_claimed_blocks = 100,
                                                 !.land_buy_rewards_per_block = <<>>],
                             Big(1000)) = <<0, 0, 0, 10>>]_vars

\* A purchase of one block (reward 100) has just been shared among three
\* blocks: the accumulator is 33,333,333,333.
ThirdOfContribution ==
    /\ last.op = "claim_parcel"
    /\ last.err = "Ok"
    /\ last.log.reward_amount = Big(100)
    /\ grid_config.land_buy_rewards_per_block = <<333, 333, 333, 33>>

\* C7: a successful claim_land_buy_rewards moves exactly
\* floor(width * height * (accumulator - checkpoint) / 10^9) from the pool to
\* the claimer, and sets the parcel's checkpoint to the accumulator.
SettlementIsExact ==
    [][(last'.op = "claim_land_buy_rewards" /\ last'.err = "Ok")
       => LET info == parcel_infos[last'.parcel_id]
              owed == Owed(info)
          IN  /\ last'.log.owed = owed
              /\ token_balance' = [token_balance EXCEPT ![last'.signer] = BigAdd(@, owed)]
              /\ reward_pool' = BigSub(reward_pool, owed)
              /\ parcel_infos' = [parcel_infos EXCEPT ![last'.parcel_id] =
                     [info EXCEPT !.last_claimed_land_buy_rewards_per_block =
                                      grid_config.land_buy_rewards_per_block]]]_vars

\* bob has just been paid 99 for his three blocks.
SettledRoundedDown ==
    /\ last.op = "claim_land_buy_rewards"
    /\ last.err = "Ok"
    /\ last.signer = "bob"
    /\ last.log.owed = Big(99)
    /\ token_balance["bob"] = Big(99)

\* C8: when the owner of a parcel claims its rewards again and no purchase
\* has contributed since the parcel was settled, the call fails with
\* NothingToClaim and pays nothing.
SecondClaimIsNothingToClaim ==
    [][(/\ last'.op = "claim_land_buy_rewards"
        /\ last'.parcel_id \in settled
        /\ last'.signer = asset_owner[parcel_infos[last'.parcel_id].asset])
       => /\ last'.err = "NothingToClaim"
          /\ UNCHANGED <<token_balance, reward_pool, paid_out>>]_vars

\* A claim for a parcel settled since the last contribution has just failed
\* with NothingToClaim, the pool not being empty.
SecondClaimRefused ==
    /\ last.op = "claim_land_buy_rewards"
    /\ last.err = "NothingToClaim"
    /\ last.parcel_id \in settled
    /\ paid_out # <<>>
    /\ reward_pool # <<>>

\* C9: the ParcelInfo that a claim_parcel creates has its checkpoint at the
\* accumulator as it is after the purchase's own contribution, so that right
\* after the purchase the parcel is owed nothing.
NewParcelIsOwedNothing ==
    (last.op = "claim_parcel" /\ last.err = "Ok")
    => /\ parcel_infos[last.parcel_id].last_claimed_land_buy_rewards_per_block
              = grid_config.land_buy_rewards_per_block
       /\ Owed(parcel_infos[last.parcel_id]) = <<>>
       /\ claim_land_buy_rewards(Accounts, last.signer, last.parcel_id, TRUE).err
              = "NothingToClaim"

\* A purchase that raised the accumulator from zero has just created its
\* ParcelInfo.
NewParcelAfterContribution ==
    /\ last.op = "claim_parcel"
    /\ last.err = "Ok"
    /\ last.log.reward_amount # <<>>
    /\ grid_config.land_buy_rewards_per_block # <<>>
    /\ last.parcel_id \in DOMAIN parcel_infos

\* The rectangle has blocks and does not fit the grid.
LeavesGrid(x, y, width, height) ==
    /\ width > 0
    /\ height > 0
    /\ (x + width > GRID_SIZE \/ y + height > GRID_SIZE)

\* C11, as stated: claim_parcel with width > 0, height > 0 and x + width > 100
\* or y + height > 100 fails with OutOfBounds and writes no block.
ClaimBeyondGridIsOutOfBounds ==
    [][(/\ last'.op = "claim_parcel"
        /\ LeavesGrid(last'.x, last'.y, last'.width, last'.height))
       => /\ last'.err = "OutOfBounds"
          /\ UNCHANGED blocks]_vars

\* C11, amended: such a claim_parcel fails and writes no block, with
\* OutOfBounds when a collection is set and with CollectionNotSet when none
\* is (the handler looks at the collection first).
ClaimBeyondGridFails ==
    [][(/\ last'.op = "claim_parcel"
        /\ LeavesGrid(last'.x, last'.y, last'.width, last'.height))
       => /\ last'.err = IF grid_config.collection = PubkeyDefault
                         THEN "CollectionNotSet"
                         ELSE "OutOfBounds"
          /\ UNCHANGED blocks]_vars

\* The purchase of (95, 0, 10, 1) has just failed with OutOfBounds.
ClaimBeyondGridRefused ==
    /\ last.op = "claim_parcel"
    /\ last.err = "OutOfBounds"
    /\ <<last.x, last.y, last.width, last.height>> = <<95, 0, 10, 1>>

(***************************************************************************)
(* SpecThresholds: update_config writes threshold lists (sorted or not)    *)
(* and burn totals, and a buyer without tokens probes a block of ring 1    *)
(* and one of ring 2: the answer (RingLocked, or InsufficientBalance once  *)
(* the ring check has passed) shows get_unlocked_ring at work.             *)
(***************************************************************************)
\* Bound: the length of the threshold lists drawn.
MaxThresholds == 3

ThresholdValues == {<<>>, Big(100), Big(500)}

\* [0, 100, ..., 900] (utils.rs, test_get_unlocked_ring)
TenThresholds == [i \in 1..10 |-> Big((i - 1) * 100)]

ThresholdLists ==
    UNION {[1..n -> ThresholdValues] : n \in 0..MaxThresholds} \cup {TenThresholds}

Burns == {<<>>, Big(99), Big(100), Big(500), Big(1000)}

NextThresholds ==
    \/ \E t \in ThresholdLists :
          UpdateConfig(Authority, [NoChange EXCEPT !.ring_thresholds = Some(t)])
    \/ \E b \in Burns :
          UpdateConfig(Authority, [NoChange EXCEPT !.total_burned = Some(b)])
    \/ UpdateConfig(Authority, SetCollection)
    \/ \E rect \in {<<0, 3, 1, 1>>, <<6, 6, 1, 1>>} :
          ClaimParcel("bob", rect[1], rect[2], rect[3], rect[4], TRUE)

SpecThresholds == Init /\ [][NextThresholds]_vars

\* The ring that the GridConfig unlocks.
UnlockedRing == get_unlocked_ring(grid_config.total_burned, grid_config.ring_thresholds)

\* C12: for the threshold list of any reachable GridConfig (sorted or not)
\* and burn totals b1 <= b2, get_unlocked_ring(b1, thresholds) <=
\* get_unlocked_ring(b2, thresholds).
UnlockedRingIsMonotonic ==
    \A b \in Burns :
        /\ BigLeq(b, grid_config.total_burned)
              => get_unlocked_ring(b, grid_config.ring_thresholds) <= UnlockedRing
        /\ BigLeq(grid_config.total_burned, b)
              => UnlockedRing <= get_unlocked_ring(b, grid_config.ring_thresholds)

\* An unsorted list, [500, 100], with 100 burned: ring 2 is unlocked, and a
\* purchase in ring 2 has just passed the ring check.
UnsortedThresholdsMet ==
    /\ grid_config.ring_thresholds = <<Big(500), Big(100)>>
    /\ grid_config.total_burned = Big(100)
    /\ UnlockedRing = 2
    /\ last.op = "claim_parcel"
    /\ <<last.x, last.y>> = <<6, 6>>
    /\ last.err = "InsufficientBalance"

\* The indices i + 1 of the thresholds that total_burned has reached.
ThresholdsMet ==
    {k \in 1..Len(grid_config.ring_thresholds) :
        BigLeq(grid_config.ring_thresholds[k], grid_config.total_burned)}

\* C13: get_unlocked_ring(total_burned, thresholds) is the largest i + 1 with
\* total_burned >= thresholds[i], and 1 when no threshold is met or the list
\* is empty; with [0, 100, ..., 900] it is 1 for 0 and 99, 2 for 100, 6 for
\* 500 and 10 for 1000.  A purchase in ring 2 passes the ring check exactly
\* when that value is at least 2.
UnlockedRingIsLargestMet ==
    /\ UnlockedRing = IF ThresholdsMet = {} THEN 1
                      ELSE CHOOSE k \in ThresholdsMet : \A j \in ThresholdsMet : j <= k
    /\ grid_config.ring_thresholds = TenThresholds
          => UnlockedRing = CASE grid_config.total_burned = <<>> -> 1
                              [] grid_config.total_burned = Big(99) -> 1
                              [] grid_config.total_burned = Big(100) -> 2
                              [] grid_config.total_burned = Big(500) -> 6
                              [] grid_config.total_burned = Big(1000) -> 10
    /\ (last.op = "claim_parcel" /\ <<last.x, last.y>> = <<6, 6>>
        /\ last.err \in {"RingLocked", "InsufficientBalance"})
          => (last.err = "RingLocked" <=> (ThresholdsMet \cap (2..10)) = {})

\* With [0, 100, ..., 900] and 500 burned, ring 6 is unlocked and a purchase
\* in ring 2 has just passed the ring check.
TenThresholdsAt500 ==
    /\ grid_config.ring_thresholds = TenThresholds
    /\ grid_config.total_burned = Big(500)
    /\ UnlockedRing = 6
    /\ last.op = "claim_parcel"
    /\ <<last.x, last.y>> = <<6, 6>>
    /\ last.err = "InsufficientBalance"

(***************************************************************************)
(* SpecRing: a buyer without tokens probes single blocks at and around the *)
(* ring borders and the corners, with ring 1 or rings 1 and 2 unlocked:    *)
(* the answer shows get_ring at work.                                      *)
(***************************************************************************)
RingCoords == {0, 5, 6, 45, 50, 54, 93, 94, 99}

NextRing ==
    \/ \E args \in {SetCollection, UnlockRing2} : UpdateConfig(Authority, args)
    \/ \E x \in RingCoords, y \in RingCoords : ClaimParcel("bob", x, y, 1, 1, TRUE)

SpecRing == Init /\ [][NextRing]_vars

\* C14, as stated: get_ring is the same at (x, y), (99 - x, y), (x, 99 - y)
\* and (99 - x, 99 - y); here for every block (x, y) that a purchase has
\* just asked for.
RingIsSymmetric ==
    last.op = "claim_parcel"
    => /\ get_ring(last.x, last.y) = get_ring(GRID_SIZE - 1 - last.x, last.y)
       /\ get_ring(last.x, last.y) = get_ring(last.x, GRID_SIZE - 1 - last.y)
       /\ get_ring(last.x, last.y) =
              get_ring(GRID_SIZE - 1 - last.x, GRID_SIZE - 1 - last.y)

\* With ring 1 alone unlocked, the purchase of (5, 50) has just passed the
\* ring check; its mirror image (94, 50) is in ring 2.
MirrorBlocksDiffer ==
    /\ last.op = "claim_parcel"
    /\ <<last.x, last.y>> = <<5, 50>>
    /\ last.err = "InsufficientBalance"
    /\ UnlockedRing = 1
    /\ get_ring(94, 50) = 2

GridCoords == 0..(GRID_SIZE - 1)

\* The distance of a block from the centre (50, 50), and the ring of a
\* distance: 0-4 is ring 10, 5-9 ring 9, ..., 40-44 ring 2, 45-50 ring 1.
CentreDistance(x, y) ==
    LET dx == IF x >= 50 THEN x - 50 ELSE 50 - x
        dy == IF y >= 50 THEN y - 50 ELSE 50 - y
    IN  IF dx >= dy THEN dx ELSE dy

RingOfDistance(d) == IF d >= 45 THEN 1 ELSE 10 - (d \div 5)

\* C15: for all x, y in 0..99, get_ring(x, y) is in 1..10 and is
\* max(1, 11 - min(d / 5 + 1, 10)) with d = max(|x - 50|, |y - 50|):
\* distances 0-4 give ring 10, 5-9 ring 9, 10-14 ring 8, and the four corners
\* give ring 1.  A purchase of a block is refused with RingLocked exactly
\* when that ring is above the unlocked ring.
RingIsBandOfDistance ==
    /\ \A x \in GridCoords, y \in GridCoords :
          LET d == CentreDistance(x, y)
          IN  /\ get_ring(x, y) \in 1..10
              /\ get_ring(x, y) = RingOfDistance(d)
              /\ d \in 0..4 => get_ring(x, y) = 10
              /\ d \in 5..9 => get_ring(x, y) = 9
              /\ d \in 10..14 => get_ring(x, y) = 8
    /\ get_ring(0, 0) = 1 /\ get_ring(99, 99) = 1
    /\ get_ring(0, 99) = 1 /\ get_ring(99, 0) = 1
    /\ get_ring(50, 50) = 10
    /\ (last.op = "claim_parcel" /\ last.err \in {"RingLocked", "InsufficientBalance"})
          => (last.err = "RingLocked"
                 <=> RingOfDistance(CentreDistance(last.x, last.y)) > UnlockedRing)

\* With rings 1 and 2 unlocked, the purchase of (45, 50), in ring 9, has just
\* been refused with RingLocked.
Ring9Refused ==
    /\ last.op = "claim_parcel"
    /\ <<last.x, last.y>> = <<45, 50>>
    /\ last.err = "RingLocked"
    /\ UnlockedRing = 2
    /\ get_ring(45, 50) = 9

(***************************************************************************)
(* SpecOwnership: purchases by alice, transfers of the assets between      *)
(* alice and bob, and reward claims by both.                               *)
(***************************************************************************)
NextOwnership ==
    \/ UpdateConfig(Authority, SetCollection)
    \/ \E rect \in RewardRects :
          /\ WithinBudget(claim_parcel(Accounts, "alice", rect[1], rect[2],
                                       rect[3], rect[4], TRUE), MaxParcels)
          /\ ClaimParcel("alice", rect[1], rect[2], rect[3], rect[4], TRUE)
    \/ \E asset \in 1..MaxParcels, new_owner \in Users : TransferAsset(asset, new_owner)
    \/ \E c \in Users, p \in 1..MaxParcels : ClaimLandBuyRewards(c, p, TRUE)

SpecOwnership == Init /\ [][NextOwnership]_vars

WithinAssets(r, max) == r.err = "Ok" => Cardinality(DOMAIN asset_owner) < max

NextAuthority ==
    \/ CreateBlockMap
    \/ Initialize(Authority, InitialPrice, InitialThresholds, InitialShareBps)
    \/ \E signer \in {Authority, "alice"}, args \in {SetCollection, UnlockRing2} :
          UpdateConfig(signer, args)
    \/ /\ WithinAssets(claim_parcel(Accounts, "alice", 0, 0, 3, 1, TRUE), MaxParcels)
       /\ ClaimParcel("alice", 0, 0, 3, 1, TRUE)
    \/ \E signer \in {Authority, "alice"}, rect \in {<<0, 2, 1, 1>>, <<6, 6, 1, 1>>} :
          /\ WithinAssets(admin_mint(Accounts, signer, "bob", rect[1], rect[2],
                                     rect[3], rect[4], TRUE), MaxParcels)
          /\ AdminMint(signer, "bob", rect[1], rect[2], rect[3], rect[4], TRUE)
    \/ \E signer \in {Authority, "alice"}, p \in 1..MaxParcels :
          AdminCloseParcelInfo(signer, p)
    \/ \E signer \in {Authority, "alice"} : AdminPurge(signer, "ok")

SpecAuthority == Init /\ [][NextAuthority]_vars

AuthorityInstructions ==
    {"update_config", "admin_mint", "admin_close_parcel_info", "admin_purge"}

\* C17, as stated: update_config, admin_mint, admin_close_parcel_info and
\* admin_purge signed by another than grid_config.authority fail with
\* Unauthorized and change no state.
NonAuthorityIsUnauthorized ==
    [][(/\ last'.op \in AuthorityInstructions
        /\ config_live
        /\ last'.signer # grid_config.authority)
       => /\ last'.err = "Unauthorized"
          /\ UNCHANGED Accounts]_vars

\* C17, amended: they fail and change no state; the error is Unauthorized
\* unless the accounts fail before the authority is compared:
\* admin_close_parcel_info of a ParcelInfo that does not exist
\* (AccountNotInitialized), admin_mint when the ParcelInfo address of
\* next_parcel_id is in use (AccountAlreadyInUse).
NonAuthorityFails ==
    [][(/\ last'.op \in AuthorityInstructions
        /\ config_live
        /\ last'.signer # grid_config.authority)
       => /\ last'.err =
                IF /\ last'.op = "admin_close_parcel_info"
                   /\ last'.parcel_id \notin DOMAIN parcel_infos
                THEN "AccountNotInitialized"
                ELSE IF /\ last'.op = "admin_mint"
                        /\ grid_config.next_parcel_id \in DOMAIN parcel_infos
                     THEN "AccountAlreadyInUse"
                ELSE "Unauthorized"
          /\ UNCHANGED Accounts]_vars

\* alice has just been refused an admin_purge, with tokens in the pool.
PurgeByAliceRefused ==
    /\ last.op = "admin_purge"
    /\ last.signer = "alice"
    /\ last.err = "Unauthorized"
    /\ reward_pool # <<>>

(***************************************************************************)
(* SpecMint: purchases by alice in ring 1 and mints by the authority, in   *)
(* ring 1 and at the centre (ring 10); one mint more than purchases, so    *)
(* that a mint can follow a purchase that raised the accumulator.          *)
(***************************************************************************)
NextMint ==
    \/ UpdateConfig(Authority, SetCollection)
    \/ \E rect \in {<<0, 0, 3, 1>>, <<0, 2, 1, 1>>} :
          /\ WithinBudget(claim_parcel(Accounts, "alice", rect[1], rect[2],
                                       rect[3], rect[4], TRUE), MaxParcels)
          /\ ClaimParcel("alice", rect[1], rect[2], rect[3], rect[4], TRUE)
    \/ \E rect \in {<<50, 50, 1, 1>>, <<0, 0, 3, 1>>, <<0, 2, 1, 1>>} :
          /\ WithinBudget(admin_mint(Accounts, Authority, "bob", rect[1], rect[2],
                                     rect[3], rect[4], TRUE), MaxParcels + 1)
          /\ AdminMint(Authority, "bob", rect[1], rect[2], rect[3], rect[4], TRUE)

SpecMint == Init /\ [][NextMint]_vars

\* C18: a successful admin_mint allocates its rectangle whatever the rings of
\* the blocks (admin_mint never answers RingLocked); it leaves total_burned,
\* land_buy_rewards_per_block, the pool and every token balance unchanged; it
\* adds the blocks to total_claimed_blocks, increments next_parcel_id, writes
\* the id to the rectangle's blocks and to no other, and creates the
\* ParcelInfo of that id, its checkpoint at the current accumulator.
MintOnlyAllocates ==
    [][last'.op = "admin_mint"
       => /\ last'.err # "RingLocked"
          /\ last'.err = "Ok"
                => LET id      == grid_config.next_parcel_id
                       written == {BlockIndex(b[1], b[2]) :
                                      b \in BlocksOf(last'.x, last'.y, last'.width, last'.height)}
                   IN  /\ grid_config' =
                             [grid_config EXCEPT
                                !.total_claimed_blocks = @ + last'.width * last'.height,
                                !.next_parcel_id = @ + 1]
                       /\ UNCHANGED <<token_balance, reward_pool, contributed, paid_out>>
                       /\ \A i \in written : i \in DOMAIN blocks' /\ blocks'[i] = id
                       /\ \A i \in (DOMAIN blocks' \cup DOMAIN blocks) \ written :
                              i \in DOMAIN blocks /\ i \in DOMAIN blocks' /\ blocks'[i] = blocks[i]
                       /\ DOMAIN parcel_infos' = DOMAIN parcel_infos \cup {id}
                       /\ \A p \in DOMAIN parcel_infos : parcel_infos'[p] = parcel_infos[p]
                       /\ <<parcel_infos'[id].x, parcel_infos'[id].y,
                            parcel_infos'[id].width, parcel_infos'[id].height>>
                              = <<last'.x, last'.y, last'.width, last'.height>>
                       /\ parcel_infos'[id].last_claimed_land_buy_rewards_per_block
                              = grid_config.land_buy_rewards_per_block
                       /\ parcel_infos'[id].asset \notin DOMAIN asset_owner
                       /\ asset_owner'[parcel_infos'[id].asset] = "bob"]_vars

\* With ring 1 alone unlocked and the accumulator above zero, the centre
\* block (ring 10) has just been minted.
CentreMintedWhileLocked ==
    /\ last.op = "admin_mint"
    /\ last.err = "Ok"
    /\ get_ring(last.x, last.y) = 10
    /\ UnlockedRing = 1
    /\ grid_config.land_buy_rewards_per_block # <<>>
    /\ parcel_infos[last.parcel_id].last_claimed_land_buy_rewards_per_block
           = grid_config.land_buy_rewards_per_block

\* C19, as stated: in every reachable state, every non-zero entry of the
\* BlockMap is the id of a ParcelInfo that exists and whose rectangle covers
\* the block.
EveryEntryHasItsParcel ==
    \A i \in DOMAIN blocks :
        blocks[i] # 0
        => /\ blocks[i] \in DOMAIN parcel_infos
           /\ \E b \in ParcelBlocks(parcel_infos[blocks[i]]) : BlockIndex(b[1], b[2]) = i

\* admin_close_parcel_info has just closed the ParcelInfo of a parcel whose
\* id is still in the BlockMap.
ParcelClosedUnderItsBlocks ==
    /\ last.op = "admin_close_parcel_info"
    /\ last.err = "Ok"
    /\ last.parcel_id \notin DOMAIN parcel_infos
    /\ \E i \in DOMAIN blocks : blocks[i] = last.parcel_id

\* C20: admin_purge drains the pool, closes it, zeroes the BlockMap and
\* releases the GridConfig, in that order.  Whichever CPI fails, what the
\* handler has written when it returns the error leaves the BlockMap and the
\* GridConfig as they were, and a failed drain leaves the pool too; the
\* BlockMap is only ever zeroed with the pool empty, the GridConfig only
\* released with the BlockMap zeroed; a purge that succeeds has moved the
\* whole pool to the authority's token account.
PurgeDrainsBeforeItZeroes ==
    [][last'.op = "admin_purge"
       => \A cpi \in {"ok", "drain", "close"} :
            LET r           == admin_purge(Accounts, last'.signer, cpi)
                map_kept    == /\ r.st.blocks = blocks
                               /\ r.st.block_map_live = block_map_live
                config_kept == /\ r.st.grid_config = grid_config
                               /\ r.st.config_live = config_live
            IN  /\ r.err # "Ok" => map_kept /\ config_kept
                /\ (r.err # "Ok" /\ cpi = "drain") => r.st = Accounts
                /\ ~map_kept => r.st.reward_pool = <<>>
                /\ ~config_kept => r.st.blocks = <<>> /\ ~r.st.block_map_live
                /\ r.err = "Ok"
                   => /\ r.st.reward_pool = <<>>
                      /\ r.st.token_balance[last'.signer]
                           = BigAdd(token_balance[last'.signer], reward_pool)
                      /\ r.st.blocks = <<>> /\ ~r.st.block_map_live
                      /\ ~r.st.config_live]_vars

\* The authority's purge has failed in a CPI with tokens in the pool and
\* blocks claimed: both are still there.
PurgeFailedInCpi ==
    /\ last.op = "admin_purge"
    /\ last.signer = Authority
    /\ last.err = "TokenError"
    /\ reward_pool # <<>>
    /\ blocks # <<>>
    /\ config_live

(***************************************************************************)
(* SpecConcurrent: transactions in flight.  Clients submit claim_parcel    *)
(* and admin_mint transactions against the state they see; the runtime     *)
(* starts a transaction when the accounts it writes are not locked by       *)
(* another one, runs the instruction on the accounts as they are then, and  *)
(* commits or reverts it.                                                   *)
(***************************************************************************)
\* Bound of the model: the transactions in flight.
MaxInFlight == 2

\* Two rectangles that share block (1, 0), and one apart from both.
ConcurrentRects == { <<0, 0, 2, 1>>, <<1, 0, 1, 2>>, <<0, 3, 1, 1>> }

\* A transaction: the instruction, its rectangle, and the ParcelInfo address
\* its client derived, given as the parcel id in the address's seeds.
Transactions ==
    [op : {"claim_parcel", "admin_mint"}, rect : ConcurrentRects,
     parcel_info : 1..MaxInFlight]

\* seeds = [ParcelInfo::SEED, next_parcel_id]: the account passed as
\* parcel_info must be the PDA of the next_parcel_id of the GridConfig as the
\* instruction finds it.
parcel_info_seeds(S, parcel_info, r) ==
    IF ~S.config_live THEN Fail("AccountNotInitialized", S)
    ELSE IF parcel_info # S.grid_config.next_parcel_id THEN Fail("ConstraintSeeds", S)
    ELSE r

\* What a transaction's instruction returns on accounts S.
Run(S, tx) ==
    IF tx.op = "claim_parcel"
    THEN parcel_info_seeds(S, tx.parcel_info,
             claim_parcel(S, "alice", tx.rect[1], tx.rect[2], tx.rect[3], tx.rect[4], TRUE))
    ELSE parcel_info_seeds(S, tx.parcel_info,
             admin_mint(S, Authority, "bob", tx.rect[1], tx.rect[2], tx.rect[3],
                        tx.rect[4], TRUE))

CallOf(tx) ==
    RectCall(tx.op, IF tx.op = "claim_parcel" THEN "alice" ELSE Authority,
             tx.rect[1], tx.rect[2], tx.rect[3], tx.rect[4])

\* Faulty variant of write_locks_free: a runtime that takes no locks.
write_locks_ignored(flight) == TRUE

\* grid_config and block_map are `mut` in ClaimParcel and in AdminMint: every
\* such transaction write-locks both, so one starts only when none is running.
write_locks_free(flight) == \A e \in flight : e.stage # "running"

Submit(tx) ==
    /\ Cardinality(in_flight) < MaxInFlight
    /\ \A e \in in_flight : e.tx # tx
    /\ in_flight' = in_flight \cup {[tx |-> tx, stage |-> "submitted", r |-> Fail("", Blank)]}
    /\ UNCHANGED <<grid_config, config_live, blocks, block_map_live, parcel_infos,
                   asset_owner, token_balance, reward_pool, last, contributed,
                   paid_out, settled, absorbed, allocated>>

\* The runtime locks the transaction's accounts, loads them and runs the
\* instruction.
Begin(e) ==
    /\ e.stage = "submitted"
    /\ write_locks_free(in_flight)
    /\ in_flight' = (in_flight \ {e})
                       \cup {[e EXCEPT !.stage = "running", !.r = Run(Accounts, e.tx)]}
    /\ UNCHANGED <<grid_config, config_live, blocks, block_map_live, parcel_infos,
                   asset_owner, token_balance, reward_pool, last, contributed,
                   paid_out, settled, absorbed, allocated>>

\* The runtime writes the accounts back (or not, on an error) and releases
\* the locks.
Commit(e) ==
    /\ e.stage = "running"
    /\ Apply(CallOf(e.tx), e.r)
    /\ in_flight' = (in_flight \ {e}) \cup {[e EXCEPT !.stage = "done"]}

InitConcurrent ==
    StartFrom(update_config(Initialized, Authority, SetCollection).st,
              [Call("update_config", Authority) EXCEPT !.err = "Ok"])

NextConcurrent ==
    \/ \E tx \in Transactions : Submit(tx)
    \/ \E e \in in_flight : Begin(e)
    \/ \E e \in in_flight : Commit(e)

SpecConcurrent == InitConcurrent /\ [][NextConcurrent]_vars

\* Two rectangles share a block.
Overlap(a, b) ==
    BlocksOf(a[1], a[2], a[3], a[4]) \cap BlocksOf(b[1], b[2], b[3], b[4]) # {}

\* The transactions whose instruction has returned Ok(()), committed or not
\* yet.
Passed == {e \in in_flight : e.stage \in {"running", "done"} /\ e.r.err = "Ok"}

\* C21: of two claim_parcel / admin_mint transactions in flight whose
\* rectangles overlap, at most one passes its checks and commits, in whatever
\* order the runtime takes them; and the blocks of every one that committed
\* hold its parcel id.
OverlappingTransactionsExclude ==
    /\ \A e1 \in Passed, e2 \in Passed :
          (e1 # e2 /\ Overlap(e1.tx.rect, e2.tx.rect)) => FALSE
    /\ \A e \in Passed :
          e.stage = "done"
          => \A b \in BlocksOf(e.tx.rect[1], e.tx.rect[2], e.tx.rect[3], e.tx.rect[4]) :
                get_block(blocks, b[1], b[2]) = e.r.log.parcel_id

\* Two overlapping transactions have both run: the first committed, the
\* second, whose client had derived the next ParcelInfo address, found the
\* shared block claimed.
SecondOverlappingRefused ==
    \E e1 \in in_flight, e2 \in in_flight :
        /\ Overlap(e1.tx.rect, e2.tx.rect)
        /\ e1.stage = "done" /\ e1.r.err = "Ok"
        /\ e2.stage = "done" /\ e2.r.err = "BlockAlreadyClaimed"

\* C22: a successful claim_parcel made when total_claimed_blocks = 0 moves
\* its reward_amount into the pool and leaves land_buy_rewards_per_block as
\* it was; what was paid in that way is credited to no parcel afterwards:
\* all that was paid out, all that the parcels are owed and all that was
\* absorbed together never exceed what was paid in.
FirstContributionIsAbsorbed ==
    /\ [][(/\ last'.op = "claim_parcel"
           /\ last'.err = "Ok"
           /\ grid_config.total_claimed_blocks = 0)
          => /\ grid_config'.land_buy_rewards_per_block
                  = grid_config.land_buy_rewards_per_block
             /\ reward_pool' = BigAdd(reward_pool, last'.log.reward_amount)
             /\ TotalOwed(DOMAIN parcel_infos') = TotalOwed(DOMAIN parcel_infos)]_vars
    /\ [](/\ BigLeq(absorbed, contributed)
          /\ BigLeq(BigAdd(BigAdd(paid_out, TotalOwed(DOMAIN parcel_infos)), absorbed),
                    contributed))

\* The first purchase paid 300 into the pool, a later one 100; rewards have
\* been paid out since, and the 300 are still in the pool.
AbsorbedStaysInPool ==
    /\ absorbed = Big(300)
    /\ contributed = Big(400)
    /\ paid_out # <<>>
    /\ BigLeq(absorbed, reward_pool)

(***************************************************************************)
(* SpecSplit: purchases by a funded and by an unfunded claimer, at prices  *)
(* and reward shares that update_config sets: prices up to the top of u64, *)
(* shares that do not divide the cost, and shares above 100%.              *)
(***************************************************************************)
\* 2^63 - 1: one block at this price fits in u64, 2000 times it does not.
HalfOfMax == BigDivSmall(U64_MAX, 2)

Prices == { Big(333), Big(5000), HalfOfMax, U64_MAX }

ShareBps == { 0, 3333, 10001 }

SplitRects == { <<0, 0, 3, 1>>, <<0, 2, 1, 1>> }

NextSplit ==
    \/ \E claimer \in Users, rect \in SplitRects :
          /\ WithinBudget(claim_parcel(Accounts, claimer, rect[1], rect[2],
                                       rect[3], rect[4], TRUE), MaxParcels)
          /\ ClaimParcel(claimer, rect[1], rect[2], rect[3], rect[4], TRUE)
    \/ \E price \in Prices :
          UpdateConfig(Authority, [NoChange EXCEPT !.price_per_block = Some(price)])
    \/ \E bps \in ShareBps :
          UpdateConfig(Authority,
                       [NoChange EXCEPT !.land_owners_reward_share_bps = Some(bps)])

SpecSplit == InitConcurrent /\ [][NextSplit]_vars

\* C23: every successful claim_parcel of n blocks at price p takes exactly
\* cost = n * p from the claimer, adds reward_amount = floor(cost * bps /
\* 10000) to the pool, burns the rest (no other balance moves) and adds
\* exactly that burn_amount = cost - reward_amount to total_burned.
PurchaseSplitsItsCost ==
    [][(last'.op = "claim_parcel" /\ last'.err = "Ok")
       => LET cost   == BigMulSmall(grid_config.price_per_block,
                                    last'.width * last'.height)
              shared == BigMulSmall(cost, grid_config.land_owners_reward_share_bps)
              reward_amount == last'.log.reward_amount
              burn_amount   == last'.log.burn_amount
          IN  /\ BigLeq(cost, token_balance[last'.signer])
              /\ token_balance' = [token_balance EXCEPT ![last'.signer] = BigSub(@, cost)]
              /\ reward_pool' = BigAdd(reward_pool, reward_amount)
              /\ BigLeq(BigMulSmall(reward_amount, 10000), shared)
              /\ BigLt(shared, BigMulSmall(BigAdd(reward_amount, Big(1)), 10000))
              /\ BigAdd(reward_amount, burn_amount) = cost
              /\ BigLeq(reward_amount, cost)
              /\ grid_config'.total_burned
                    = BigAdd(grid_config.total_burned, burn_amount)]_vars

\* One block at 333 with a share of 33.33%: 110 to the pool, 223 burned.
SplitRoundedDown ==
    /\ last.op = "claim_parcel"
    /\ last.err = "Ok"
    /\ last.log.reward_amount = Big(110)
    /\ last.log.burn_amount = Big(223)
    /\ grid_config.total_burned = Big(223)

\* A claim_parcel that passes the account checks, the collection check and
\* validate_claim, by a claimer who holds less than width * height *
\* price_per_block.
Underfunded ==
    /\ last'.op = "claim_parcel"
    /\ config_live
    /\ grid_config.next_parcel_id \notin DOMAIN parcel_infos
    /\ grid_config.collection # PubkeyDefault
    /\ validate_claim(last'.x, last'.y, last'.width, last'.height, blocks, grid_config) = "Ok"
    /\ ~BigLeq(BigMulSmall(grid_config.price_per_block, last'.width * last'.height),
               token_balance[last'.signer])

\* C24, as stated: such a purchase fails with InsufficientBalance, and with
\* Overflow only when width * height * price_per_block does not fit in 64
\* bits.
UnderfundedIsInsufficientBalance ==
    [][Underfunded
       => last'.err = (IF BigLeq(BigMulSmall(grid_config.price_per_block,
                                             last'.width * last'.height), U64_MAX)
                       THEN "InsufficientBalance" ELSE "Overflow")]_vars

\* C24, amended: such a purchase fails and changes nothing.  The error is
\* Overflow when the cost does not fit in 64 bits, and also when the cost
\* times land_owners_reward_share_bps does not, or when the reward
\* floor(cost * bps / 10000) exceeds the cost (a share above 10000);
\* otherwise it is InsufficientBalance.  The split is computed before the
\* balance is looked at.
UnderfundedFails ==
    [][Underfunded
       => LET cost   == BigMulSmall(grid_config.price_per_block,
                                    last'.width * last'.height)
              bps    == grid_config.land_owners_reward_share_bps
              shared == BigMulSmall(cost, bps)
          IN  /\ UNCHANGED Accounts
              /\ last'.err = (IF \/ ~BigLeq(cost, U64_MAX)
                                 \/ ~BigLeq(shared, U64_MAX)
                                 \/ ~BigLeq(BigDivSmall(shared, 10000), cost)
                              THEN "Overflow" ELSE "InsufficientBalance")]_vars

\* bob, who holds nothing, was refused a block.
UnderfundedRefused ==
    /\ last.op = "claim_parcel"
    /\ last.signer = "bob"
    /\ last.err = "InsufficientBalance"

\* A claim_parcel or admin_mint reaches a GridConfig whose collection is
\* unset.
AllocationWithoutCollection ==
    /\ last'.op \in {"claim_parcel", "admin_mint"}
    /\ config_live
    /\ grid_config.collection = PubkeyDefault

\* C25, as stated: while the collection is unset, claim_parcel and
\* admin_mint fail with CollectionNotSet, no block is allocated and no
\* ParcelInfo exists.
NoCollectionIsCollectionNotSet ==
    [][/\ AllocationWithoutCollection => last'.err = "CollectionNotSet"
       /\ (config_live' /\ grid_config'.collection = PubkeyDefault)
          => (blocks' = <<>> /\ parcel_infos' = <<>>)]_vars

\* C25, amended: while the collection is unset, claim_parcel and admin_mint
\* fail and change nothing, so no block is allocated and no parcel id is
\* used between initialize and the first update_config that sets a
\* collection.  The error is CollectionNotSet once the accounts have been
\* accepted: a ParcelInfo left at the address of next_parcel_id by an earlier
\* lifetime of the grid gives AccountAlreadyInUse, and an admin_mint that is
\* not the authority's gives Unauthorized.  ParcelInfo records of an earlier
\* lifetime may exist.
NoCollectionAllocatesNothing ==
    [][/\ AllocationWithoutCollection
          => /\ UNCHANGED Accounts
             /\ last'.err =
                  (IF grid_config.next_parcel_id \in DOMAIN parcel_infos
                   THEN "AccountAlreadyInUse"
                   ELSE IF last'.op = "admin_mint" /\ last'.signer # grid_config.authority
                   THEN "Unauthorized"
                   ELSE "CollectionNotSet")
       /\ (config_live' /\ grid_config'.collection = PubkeyDefault)
          => /\ blocks' = <<>>
             /\ grid_config'.total_claimed_blocks = 0
             /\ grid_config'.next_parcel_id = 1]_vars

\* A purchase was refused for want of a collection.
PurchaseWithoutCollectionRefused ==
    /\ last.op = "claim_parcel"
    /\ last.err = "CollectionNotSet"
    /\ config_live
    /\ grid_config.collection = PubkeyDefault

\* C26: no instruction applied to an initialized grid lowers
\* land_buy_rewards_per_block: from one state of a GridConfig to the next it
\* stays or grows, and only a successful claim_parcel makes it grow.
RewardsPerBlockNeverDecrease ==
    [][(config_live /\ config_live')
       => /\ BigLeq(grid_config.land_buy_rewards_per_block,
                    grid_config'.land_buy_rewards_per_block)
          /\ (grid_config'.land_buy_rewards_per_block
                 # grid_config.land_buy_rewards_per_block)
             => (last'.op = "claim_parcel" /\ last'.err = "Ok")]_vars

\* The accumulator has grown, and update_config has run on the grid since.
RewardsPerBlockKept ==
    /\ config_live
    /\ grid_config.land_buy_rewards_per_block # <<>>
    /\ last.op = "update_config"
    /\ last.err = "Ok"

\* C27, as stated: no instruction applied to an initialized grid lowers
\* total_burned.
TotalBurnedNeverDecreases ==
    [][(config_live /\ config_live')
       => BigLeq(grid_config.total_burned, grid_config'.total_burned)]_vars

\* C27, amended: only the authority's update_config lowers total_burned
\* (its total_burned parameter sets the counter to any value); every other
\* instruction keeps it or, claim_parcel, adds its burn_amount, so that with
\* the thresholds unchanged and no such update_config the unlocked ring
\* never gets smaller.
TotalBurnedLoweredOnlyByUpdateConfig ==
    [][(config_live /\ config_live')
       => /\ ~BigLeq(grid_config.total_burned, grid_config'.total_burned)
             => /\ last'.op = "update_config"
                /\ last'.signer = grid_config.authority
                /\ last'.err = "Ok"
          /\ last'.op # "update_config"
             => /\ grid_config'.ring_thresholds = grid_config.ring_thresholds
                /\ get_unlocked_ring(grid_config.total_burned,
                                     grid_config.ring_thresholds)
                     <= get_unlocked_ring(grid_config'.total_burned,
                                          grid_config'.ring_thresholds)
          /\ (last'.op = "claim_parcel" /\ last'.err = "Ok")
             => grid_config'.total_burned
                  = BigAdd(grid_config.total_burned, last'.log.burn_amount)]_vars

\* Purchases had burned 800; then update_config set total_burned to 500.
TotalBurnedSetBack ==
    /\ last.op = "update_config"
    /\ last.err = "Ok"
    /\ contributed = Big(200)
    /\ grid_config.total_burned = Big(500)

\* C28, as stated: in every state of an initialized grid,
\* land_owners_reward_share_bps <= 10000.
ShareIsAtMost10000 ==
    config_live => grid_config.land_owners_reward_share_bps <= 10000

\* update_config has stored a share of 10001 bps, and a purchase of three
\* blocks at 5000 has failed on it: the reward exceeds the cost.
ShareAboveAllBlocksPurchase ==
    /\ config_live
    /\ grid_config.land_owners_reward_share_bps = 10001
    /\ grid_config.price_per_block = Big(5000)
    /\ last.op = "claim_parcel"
    /\ last.signer = "alice"
    /\ last.width * last.height = 3
    /\ last.err = "Overflow"

\* C29, as stated: in every state of an initialized grid, ring_thresholds is
\* a non-decreasing sequence.
ThresholdsAreNonDecreasing ==
    config_live
    => \A i \in 1..(Len(grid_config.ring_thresholds) - 1) :
          BigLeq(grid_config.ring_thresholds[i], grid_config.ring_thresholds[i + 1])

\* update_config has stored the list [500, 100].
DecreasingThresholdsStored ==
    /\ config_live
    /\ last.op = "update_config"
    /\ last.err = "Ok"
    /\ grid_config.ring_thresholds = <<Big(500), Big(100)>>

(***************************************************************************)
(* SpecClose: allocation and admin_close_parcel_info, on rectangles that   *)
(* overlap and that cross into ring 2, with the collection set and unset.  *)
(***************************************************************************)
CloseRects == { <<0, 0, 2, 1>>, <<1, 0, 1, 2>>, <<5, 5, 2, 2>>, <<6, 6, 1, 1>> }

NextClose ==
    \/ \E rect \in CloseRects :
          /\ WithinBudget(claim_parcel(Accounts, "alice", rect[1], rect[2],
                                       rect[3], rect[4], TRUE), MaxParcels)
          /\ ClaimParcel("alice", rect[1], rect[2], rect[3], rect[4], TRUE)
    \/ \E rect \in CloseRects :
          /\ WithinBudget(admin_mint(Accounts, Authority, "bob", rect[1], rect[2],
                                     rect[3], rect[4], TRUE), MaxParcels)
          /\ AdminMint(Authority, "bob", rect[1], rect[2], rect[3], rect[4], TRUE)
    \/ \E args \in {SetCollection, UnsetCollection} : UpdateConfig(Authority, args)
    \/ \E signer \in {Authority, "alice"}, p \in 1..MaxParcels :
          AdminCloseParcelInfo(signer, p)

SpecClose == Init /\ [][NextClose]_vars

\* The rectangle of the call holds a block of a closed parcel: a block whose
\* value names no ParcelInfo.
TouchesClosedParcel ==
    \E b \in BlocksOf(last'.x, last'.y, last'.width, last'.height) :
        /\ get_block(blocks, b[1], b[2]) # 0
        /\ get_block(blocks, b[1], b[2]) \notin DOMAIN parcel_infos

\* admin_close_parcel_info removes the ParcelInfo and nothing else.
CloseRemovesOnlyTheRecord ==
    (last'.op = "admin_close_parcel_info" /\ last'.err = "Ok")
    => /\ last'.parcel_id \in DOMAIN parcel_infos
       /\ parcel_infos' = [p \in DOMAIN parcel_infos \ {last'.parcel_id}
                              |-> parcel_infos[p]]
       /\ UNCHANGED <<grid_config, config_live, blocks, block_map_live,
                      asset_owner, token_balance, reward_pool>>

SettleRects == { <<0, 2, 1, 1>>, <<0, 4, 1, 1>> }

NextSettle ==
    \/ /\ WithinBudget(admin_mint(Accounts, Authority, "bob", 0, 0, 3, 1, TRUE),
                       MaxParcels + 1)
       /\ AdminMint(Authority, "bob", 0, 0, 3, 1, TRUE)
    \/ \E rect \in SettleRects :
          /\ WithinBudget(claim_parcel(Accounts, "alice", rect[1], rect[2],
                                       rect[3], rect[4], TRUE), MaxParcels + 1)
          /\ ClaimParcel("alice", rect[1], rect[2], rect[3], rect[4], TRUE)
    \/ UpdateConfig(Authority, [NoChange EXCEPT !.price_per_block = Some(Big(333))])
    \/ \E c \in Users, p \in 1..(MaxParcels + 1) : ClaimLandBuyRewards(c, p, TRUE)

SpecSettle == InitConcurrent /\ [][NextSettle]_vars

\* claim_land_buy_rewards for parcel p by the owner of its asset, on
\* accounts S: what it returns, and what it pays.
Settle(S, p) ==
    claim_land_buy_rewards(S, S.asset_owner[S.parcel_infos[p].asset], p, TRUE)

Paid(r) == IF r.err = "Ok" THEN r.log.owed ELSE <<>>

\* Settling p and then q, from accounts S: the two results and the accounts
\* after both.
SettleBoth(S, p, q) ==
    LET first  == Settle(S, p)
        second == Settle(Committed(S, first), q)
    IN  [first |-> first, second |-> second,
         st |-> Committed(Committed(S, first), second)]

\* Two settlements for different parcels commute: in either order each
\* returns the same result and pays the same amount, and the accounts after
\* both are the same.
SettlementsCommute ==
    \A p \in DOMAIN parcel_infos, q \in DOMAIN parcel_infos :
        p # q
        => LET pq == SettleBoth(Accounts, p, q)
               qp == SettleBoth(Accounts, q, p)
           IN  /\ pq.st = qp.st
               /\ pq.first.err = qp.second.err
               /\ pq.second.err = qp.first.err
               /\ Paid(pq.first) = Paid(qp.second)
               /\ Paid(pq.second) = Paid(qp.first)

\* What parcel p receives in all when alice's purchase of rect comes before
\* its settlement, and when it comes after it and p settles again.
PaidPurchaseFirst(S, p, rect) ==
    Paid(Settle(Committed(S, claim_parcel(S, "alice", rect[1], rect[2], rect[3],
                                          rect[4], TRUE)), p))

PaidSettlementFirst(S, p, rect) ==
    LET first == Settle(S, p)
        S1    == Committed(S, first)
        S2    == Committed(S1, claim_parcel(S1, "alice", rect[1], rect[2], rect[3],
                                            rect[4], TRUE))
    IN  BigAdd(Paid(first), Paid(Settle(S2, p)))

\* The purchases that would succeed now.
Purchasable ==
    {rect \in SettleRects :
        claim_parcel(Accounts, "alice", rect[1], rect[2], rect[3], rect[4], TRUE).err = "Ok"}

\* C31, as stated: two settlements for different parcels commute, and a
\* purchase ordered before or after a settlement never changes the total the
\* parcel receives once both have executed and it has settled again.
PurchaseOrderKeepsTotal ==
    /\ SettlementsCommute
    /\ \A p \in DOMAIN parcel_infos, rect \in Purchasable :
          PaidPurchaseFirst(Accounts, p, rect) = PaidSettlementFirst(Accounts, p, rect)

\* C31, amended: two settlements for different parcels commute; a purchase
\* ordered after a settlement instead of before it never raises the total
\* the parcel receives, and lowers it by at most one token unit: each
\* settlement rounds down what it pays, and the fraction it drops is lost to
\* the parcel.
PurchaseOrderCostsAtMostOne ==
    /\ SettlementsCommute
    /\ \A p \in DOMAIN parcel_infos, rect \in Purchasable :
          /\ BigLeq(PaidSettlementFirst(Accounts, p, rect),
                    PaidPurchaseFirst(Accounts, p, rect))
          /\ BigLeq(PaidPurchaseFirst(Accounts, p, rect),
                    BigAdd(PaidSettlementFirst(Accounts, p, rect), Big(1)))

\* Both owners have settled, one after the other, since the last purchase.
BothParcelsSettled ==
    /\ last.op = "claim_land_buy_rewards"
    /\ last.err = "Ok"
    /\ {1, 2} \subseteq settled

\* A claim_parcel or admin_mint has succeeded.
Allocation == last'.op \in {"claim_parcel", "admin_mint"} /\ last'.err = "Ok"

\* Every successful claim_parcel or admin_mint gives the new parcel the
\* current next_parcel_id, which is not 0, and adds exactly 1 to it;
\* initialize starts it at 1; on a grid that exists no other instruction
\* changes it.
ParcelIdsCount ==
    /\ Allocation
       => /\ last'.parcel_id = grid_config.next_parcel_id
          /\ last'.parcel_id # 0
          /\ grid_config'.next_parcel_id = grid_config.next_parcel_id + 1
          /\ last'.parcel_id \in DOMAIN parcel_infos'
    /\ (last'.op = "initialize" /\ last'.err = "Ok")
       => grid_config'.next_parcel_id = 1
    /\ (config_live /\ config_live' /\ ~Allocation)
       => grid_config'.next_parcel_id = grid_config.next_parcel_id

\* C32, as stated: parcel ids come from a counter that starts at 1 and is
\* advanced by 1 by every allocation and by nothing else, and no two
\* parcels ever allocated share an id.
ParcelIdsAreNeverShared ==
    [][/\ ParcelIdsCount
       /\ \A a \in DOMAIN allocated', b \in DOMAIN allocated' :
             a # b => allocated'[a] # allocated'[b]]_vars

\* C32, amended: the counter behaves as stated, and the id of a new parcel
\* is that of no ParcelInfo that exists and of no block of the BlockMap.
\* Among all parcels ever allocated ids do repeat: admin_purge and a new
\* initialize start the counter again at 1, and once the ParcelInfo of an
\* earlier lifetime is closed its id is given to a new parcel.
ParcelIdsAreFreeWhenGiven ==
    [][/\ ParcelIdsCount
       /\ Allocation
          => /\ last'.parcel_id \notin DOMAIN parcel_infos
             /\ \A i \in DOMAIN blocks : blocks[i] # last'.parcel_id]_vars

\* Parcel id 1 has been given to two assets: one before the purge, one
\* after the new initialize.
ParcelIdGivenTwice ==
    /\ last.op \in {"claim_parcel", "admin_mint"}
    /\ last.err = "Ok"
    /\ \E a \in DOMAIN allocated, b \in DOMAIN allocated :
          a # b /\ allocated[a] = 1 /\ allocated[b] = 1

\* The blocks of the BlockMap that are not zero.
ClaimedBlocks == {i \in DOMAIN blocks : blocks[i] # 0}

\* C33: in every state of an initialized grid reached by claim_parcel,
\* admin_mint, claim_land_buy_rewards, update_config and
\* admin_close_parcel_info, total_claimed_blocks is the number of non-zero
\* blocks of the BlockMap, and so at most 10000.
TotalClaimedBlocksCountsTheMap ==
    config_live
    => /\ grid_config.total_claimed_blocks = Cardinality(ClaimedBlocks)
       /\ grid_config.total_claimed_blocks <= TOTAL_BLOCKS

\* Four blocks are claimed, by a purchase and a mint, and the ParcelInfo of
\* one of the two parcels has been closed.
FourBlocksCountedAfterClose ==
    /\ last.op = "admin_close_parcel_info"
    /\ last.err = "Ok"
    /\ grid_config.total_claimed_blocks = 4
    /\ Cardinality(DOMAIN parcel_infos) = 1
    /\ contributed # <<>>

\* C34, as stated: in every state of an initialized grid, every
\* ParcelInfo's checkpoint is at most land_buy_rewards_per_block, and the
\* pool holds at least the sum of what the ParcelInfo records are owed.
PoolIsSolvent ==
    config_live
    => /\ \A p \in DOMAIN parcel_infos :
             BigLeq(parcel_infos[p].last_claimed_land_buy_rewards_per_block,
                    grid_config.land_buy_rewards_per_block)
       /\ BigLeq(TotalOwed(DOMAIN parcel_infos), reward_pool)

\* After a purge and a new initialize, the owner of a parcel of the earlier
\* lifetime asked for its rewards: the checkpoint of its ParcelInfo is above
\* the new accumulator, and the subtraction failed.
StaleCheckpointUnderflows ==
    /\ last.op = "claim_land_buy_rewards"
    /\ last.err = "Overflow"
    /\ asset_owner[parcel_infos[last.parcel_id].asset] = last.signer
    /\ ~BigLeq(parcel_infos[last.parcel_id].last_claimed_land_buy_rewards_per_block,
               grid_config.land_buy_rewards_per_block)

====
